---- MODULE Spec2Model ----
(***************************************************************************)
(* Model of the three-stage event-processing pipeline of the               *)
(* nextier-signal-engine-core repository: Ingestor (scraper), Classifier   *)
(* (intelligence_api) and Risk Engine (predictor).                         *)
(*                                                                         *)
(* Numbers.  Python floats are modelled as exact fixed-point integers in   *)
(* thousandths: a score of 79.96 is 79960, an index of 0.8 is 800.  The    *)
(* reference data below is chosen so that every product and quotient the   *)
(* scorer takes is exact in thousandths.                                   *)
(*                                                                         *)
(* Optional values.  Python's None is the empty sequence <<>> and a        *)
(* present value v is <<v>>.                                               *)
(***************************************************************************)
EXTENDS Integers, Sequences, FiniteSets, TLC

VARIABLES
    \* ---- Risk Engine (predictor) ----
    parsed_events,          \* store collection parsed_events, in insertion order
    economic_data,          \* store collection economic_data (rows, or <<>> when absent)
    risk_signals,           \* store collection risk_signals (documents, in insertion order)
    previous_risk_scores,   \* RiskService.previous_risk_scores, one map per RiskService instance
    events_buffer,          \* PredictionService._events_buffer, one per PredictionService instance
    lastSeen,               \* history: per instance and location key, the score of the latest scoring
    passes,                 \* history: consecutive full cycles run over unchanged events and economic data
    \* ---- pure scoring harness ----
    inEvent, inPrev, inSim, outClassic, outDynamic,
    \* ---- Ingestor (scraper) ----
    articles,               \* store collection articles (documents, in insertion order)
    articles_queue,         \* messages published to the articles queue (urls, in order)
    collection_truth,       \* what bool(Collection) does in the installed pymongo
    is_running,             \* AutomationScheduler.is_running
    instances,              \* the scheduler's count of running instances of the scrape job
    job_pc,                 \* position of each executor thread in _sync_scrape_job
    automation_log,         \* /data/automation_logs.json
    lastTick,               \* history: what the scheduler did with the latest cron tick
    scrapes_in_flight,      \* GET /scrape requests suspended in their scrape
    scrape_response,        \* the latest response of GET /scrape, with what its calls did
    saved,                  \* history: per url, the first and the latest article an upsert offered
    \* ---- Classifier (intelligence_api) ----
    cycle_pc,               \* position of each processing cycle in process_news_articles
    cycle_batch,            \* the unprocessed articles a cycle read
    events_queue,           \* messages published to the parsed-events queue (urls, in order)
    article_state,          \* history: per url, the state of the article in the Classifier
    \* ---- Classifier: the decorated model call ----
    circuit,                \* the circuit breaker of call_ollama_llm
    llm_log,                \* history: the calls of call_ollama_llm, in order
    \* ---- Ingestor: deduplication harness ----
    dedup_pc,               \* how often deduplicate_and_score has been applied
    candidates,             \* the list given to deduplicate_and_score
    deduplicated_articles,  \* what it returned for candidates
    deduplicated_again,     \* what it returned for deduplicated_articles
    \* ---- Risk Engine: POST /simulate ----
    simulation_response,    \* the latest response of POST /simulate, if any
    \* ---- Risk Engine: the consumer of the parsed-events queue ----
    last_delivery,          \* the latest message delivered, with the reply the consumer gave
    \* ---- Ingestor: outbound requests ----
    semaphore_value,        \* the permits GLOBAL_SEMAPHORE has left
    fetches,                \* the outbound requests in flight, by the code that sent them
    \* ---- Classifier: batches of model calls ----
    batch_tasks,            \* per batch, the tasks waiting for its semaphore and those in a model call
    \* ---- Ingestor: the scheduler's life cycle ----
    scheduler_running,      \* BackgroundScheduler.running
    stop_pc,                \* position of the lifespan's shutdown in AutomationScheduler.stop
    log_snapshot,           \* per writer, the log it has read and not yet written back
    ticks,                  \* history: the cron ticks so far
    high_risk_alerts,       \* /data/high_risk_alerts.json
    news_sources,           \* Config.NEWS_SOURCES, each source with what a scrape of it gives now
    \* ---- Classifier: the lifespan ----
    processor_running,      \* ProcessingService._running
    closed,                 \* the clients and connections the lifespan has closed
    \* ---- Classifier: categorization ----
    article_features,       \* per article of raw_articles, its features.conflict_type and features.confidence
    model_replies,          \* per article, what the model call for its text comes back with
    \* ---- Risk Engine: the background-processor loops ----
    service_running,        \* PredictionService._running, one per PredictionService instance
    loop_pc,                \* position of each task running start_background_processor
    \* ---- Risk Engine: the events buffer ----
    accepted,               \* history: per instance, the urls of the events buffered, in order
    handed                  \* history: per instance, the urls of the events a flush gave the scorer

riskVars == <<parsed_events, economic_data, risk_signals, previous_risk_scores,
              events_buffer, lastSeen, passes>>
scoreVars == <<inEvent, inPrev, inSim, outClassic, outDynamic>>
ingestVars == <<articles, articles_queue, collection_truth, is_running, instances, job_pc,
                automation_log, lastTick, scrapes_in_flight, scrape_response, saved>>
classifierVars == <<cycle_pc, cycle_batch, events_queue, article_state>>
llmVars == <<circuit, llm_log>>
dedupVars == <<dedup_pc, candidates, deduplicated_articles, deduplicated_again>>
simVars == <<simulation_response>>
brokerVars == <<last_delivery>>
fetchVars == <<semaphore_value, fetches>>
batchVars == <<batch_tasks>>
procVars == <<service_running, loop_pc>>
flushVars == <<accepted, handed>>
lifeVars == <<scheduler_running, stop_pc, log_snapshot, ticks, high_risk_alerts, news_sources, processor_running, closed, article_features, model_replies, procVars, flushVars>>
vars == <<riskVars, scoreVars, ingestVars, classifierVars, llmVars, dedupVars, simVars,
          brokerVars, fetchVars, batchVars, lifeVars>>

(***************************************************************************)
(* Generic helpers                                                         *)
(***************************************************************************)
M(n) == n * 1000

Min2(a, b) == IF a <= b THEN a ELSE b
Max2(a, b) == IF a >= b THEN a ELSE b

RECURSIVE SumLen(_)
SumLen(ws) == IF ws = <<>> THEN 0 ELSE Len(Head(ws)) + SumLen(Tail(ws))

\* Number of characters of " ".join(words).
TextLen(ws) == IF ws = <<>> THEN 0 ELSE SumLen(ws) + (Len(ws) - 1)

Range(s) == {s[i] : i \in 1..Len(s)}

\* str.lower() on the names the model uses.
Lower(s) ==
    CASE s = "Lagos" -> "lagos"
      [] s = "LAGOS" -> "lagos"
      [] s = "Ikeja" -> "ikeja"
      [] s = "Epe" -> "epe"
      [] s = "Sokoto" -> "sokoto"
      [] s = "Tangaza" -> "tangaza"
      [] s = "Benue" -> "benue"
      [] s = "Makurdi" -> "makurdi"
      [] s = "Zamfara" -> "zamfara"
      [] s = "Anka" -> "anka"
      [] s = "Borno" -> "borno"
      [] s = "Maiduguri" -> "maiduguri"
      [] s = "Atlantis" -> "atlantis"
      [] s = "Nowhere" -> "nowhere"
      [] s = "Clash" -> "clash"
      [] s = "High" -> "high"
      [] OTHER -> s

\* str.strip() on the names the model uses.
Strip(s) ==
    CASE s = " Lagos " -> "Lagos"
      [] OTHER -> s

(***************************************************************************)
(* Configuration (predictor/utils/config.py)                               *)
(***************************************************************************)
BASE_RISK_SCORE == 30
INFLATION_THRESHOLD == M(20)
FUEL_PRICE_THRESHOLD == M(650)

URBAN_LGAS == {"ikeja", "makurdi", "maiduguri", "surulere"}
is_urban_lga(lga) == Lower(Strip(lga)) \in URBAN_LGAS

(***************************************************************************)
(* Reference data.  The data files are not part of the source tree; these  *)
(* snapshots have the files' columns and a row for every branch of the     *)
(* scorer.  Indices are in thousandths, prices and percentages too.        *)
(***************************************************************************)
\* nigeria_econ.csv as loaded into economic_data: State, LGA, Fuel_Price, Inflation
EconRows == <<
    [State |-> "Lagos",   LGA |-> "Ikeja",     Fuel_Price |-> M(700),  Inflation |-> 22480],
    [State |-> "Lagos",   LGA |-> "Surulere",  Fuel_Price |-> M(600),  Inflation |-> M(15)],
    [State |-> "Sokoto",  LGA |-> "Tangaza",   Fuel_Price |-> M(640),  Inflation |-> 20500],
    [State |-> "Benue",   LGA |-> "Makurdi",   Fuel_Price |-> M(800),  Inflation |-> M(35)],
    [State |-> "Zamfara", LGA |-> "Anka",      Fuel_Price |-> 699600,  Inflation |-> M(18)],
    [State |-> "Borno",   LGA |-> "Maiduguri", Fuel_Price |-> M(650),  Inflation |-> M(20)] >>

\* climate_data.json: per (state, lga); flood_inundation_index in percent
ClimateData == <<
    [state |-> "Benue", lga |-> "Makurdi",   flood_inundation_index |-> M(25)],
    [state |-> "Lagos", lga |-> "Ikeja",     flood_inundation_index |-> M(10)],
    [state |-> "Borno", lga |-> "Maiduguri", flood_inundation_index |-> M(20)] >>

\* nigeria_econ_indicators.csv: state-level strategic indicators in [0, 1]
StrategicIndicators == <<
    [state |-> "Lagos",   climate_vulnerability |-> 300, mining_density |-> 100, migration_pressure |-> 200],
    [state |-> "Sokoto",  climate_vulnerability |-> 800, mining_density |-> 500, migration_pressure |-> 600],
    [state |-> "Benue",   climate_vulnerability |-> 600, mining_density |-> 300, migration_pressure |-> 600],
    [state |-> "Zamfara", climate_vulnerability |-> 750, mining_density |-> 800, migration_pressure |-> 400],
    [state |-> "Borno",   climate_vulnerability |-> 700, mining_density |-> 600, migration_pressure |-> 500] >>

\* border_signals.json
BorderData == <<
    [state |-> "Sokoto",  lga |-> "Tangaza",   border_activity |-> "High",
     lakurawa_presence_confirmed |-> TRUE],
    [state |-> "Borno",   lga |-> "Maiduguri", border_activity |-> "Critical",
     lakurawa_presence_confirmed |-> FALSE],
    [state |-> "Zamfara", lga |-> "Anka",      border_activity |-> "High",
     lakurawa_presence_confirmed |-> TRUE],
    [state |-> "Lagos",   lga |-> "Ikeja",     border_activity |-> "Low",
     lakurawa_presence_confirmed |-> FALSE] >>

\* An event's (latitude, longitude) is one of these places; "none" is an event
\* without coordinates.
NoPlace == "none"
Places == {"p_high", "p_med", "p_low", "p_out", "p_far"}

\* climate_indicators.geojson: polygons, each given by the places it contains
ClimateIndicators == <<
    [region |-> "Lake Chad",    impact_zone |-> "High",        places |-> {"p_high"}],
    [region |-> "Middle Belt",  impact_zone |-> "Medium-High", places |-> {"p_med"}],
    [region |-> "Coast",        impact_zone |-> "Low",         places |-> {"p_low"}] >>

\* mining_activity.json
MiningData == <<
    [site_name |-> "Anka Gold",  informal_taxation_rate |-> 300],
    [site_name |-> "Jos Tin",    informal_taxation_rate |-> 100] >>

\* Haversine distance from a place to a mining site, in thousandths of a km.
haversine_distance(place, site_name) ==
    CASE place = "p_high" /\ site_name = "Anka Gold" -> M(3)
      [] place = "p_high" /\ site_name = "Jos Tin"   -> M(50)
      [] place = "p_med"  /\ site_name = "Anka Gold" -> M(50)
      [] place = "p_med"  /\ site_name = "Jos Tin"   -> M(12)
      [] place = "p_low"  /\ site_name = "Anka Gold" -> 0
      [] place = "p_low"  /\ site_name = "Jos Tin"   -> M(40)
      [] place = "p_out"  /\ site_name = "Anka Gold" -> M(9)
      [] place = "p_out"  /\ site_name = "Jos Tin"   -> M(8)
      [] OTHER -> M(200)

(***************************************************************************)
(* RiskService lookups (predictor/services/risk_service.py)                *)
(***************************************************************************)
event_type_scores(event_type) ==
    CASE event_type = "clash" -> 40
      [] event_type = "conflict" -> 35
      [] event_type = "violence" -> 30
      [] event_type = "protest" -> 25
      [] event_type = "political" -> 20
      [] event_type = "security" -> 25
      [] event_type = "crime" -> 20
      [] event_type = "sports" -> 5
      [] event_type = "economic" -> 15
      [] event_type = "social" -> 10
      [] event_type = "unknown" -> 15
      [] OTHER -> 15

severity_modifiers(severity) ==
    CASE severity = "high" -> 20
      [] severity = "severe" -> 25
      [] severity = "critical" -> 30
      [] severity = "medium" -> 10
      [] severity = "moderate" -> 8
      [] severity = "low" -> 5
      [] severity = "minor" -> 3
      [] severity = "unknown" -> 5
      [] OTHER -> 5

\* Rows of a table that satisfy Test, in table order.
Rows(table, Test(_)) == SelectSeq(table, Test)

get_strategic_indicators(state) ==
    LET T(r) == Lower(r.state) = Lower(state)
        hit == Rows(StrategicIndicators, T)
    IN  IF hit = <<>> THEN <<>> ELSE <<hit[1]>>

find_climate_data(state, lga) ==
    LET T(r) == Lower(r.state) = Lower(state) /\ Lower(r.lga) = Lower(lga)
        hit == Rows(ClimateData, T)
    IN  IF hit = <<>> THEN <<>> ELSE <<hit[1]>>

find_border_data(state, lga) ==
    LET T(r) == Lower(r.state) = Lower(state) /\ Lower(r.lga) = Lower(lga)
        hit == Rows(BorderData, T)
    IN  IF hit = <<>> THEN <<>> ELSE <<hit[1]>>

\* The first polygon containing the event's point, None without coordinates.
calculate_climate_risk(event) ==
    IF event.place = NoPlace THEN <<>>
    ELSE LET T(f) == event.place \in f.places
             hit == Rows(ClimateIndicators, T)
         IN  IF hit = <<>> THEN <<>>
             ELSE << [region |-> hit[1].region, impact_zone |-> hit[1].impact_zone,
                      is_high_impact |-> (hit[1].impact_zone = "High")] >>

\* The site at the least distance (the first one on a tie), None without coordinates.
RECURSIVE NearestSite(_, _, _)
NearestSite(place, sites, best) ==
    IF sites = <<>> THEN best
    ELSE LET d == haversine_distance(place, Head(sites).site_name)
         IN  IF best = <<>> \/ d < best[1].distance_km
             THEN NearestSite(place, Tail(sites),
                     << [site_name |-> Head(sites).site_name,
                         informal_taxation_rate |-> Head(sites).informal_taxation_rate,
                         distance_km |-> d] >>)
             ELSE NearestSite(place, Tail(sites), best)

find_nearest_mining_site(event) ==
    IF event.place = NoPlace THEN <<>> ELSE NearestSite(event.place, MiningData, <<>>)

FarmerHerderKeywords ==
    {"farmer", "herder", "herdsmen", "fulani", "pastoralist", "cattle", "grazing",
     "farmland", "crop", "livestock"}
FarmerHerderPhrases == { <<"communal", "clash">>, <<"land", "dispute">> }

\* The text checked is title + content + event_type, lower-cased; titles are word
\* sequences, a keyword matches a word and a phrase two adjacent words.
is_farmer_herder_conflict(event) ==
    \/ \E w \in Range(event.source_title) \cup {Lower(event.event_type)} :
            Lower(w) \in FarmerHerderKeywords
    \/ \E i \in 1..(Len(event.source_title) - 1) :
            <<Lower(event.source_title[i]), Lower(event.source_title[i + 1])>>
                \in FarmerHerderPhrases

find_economic_data(event, econ_data) ==
    LET state == Strip(event.state)
        lga == Strip(event.lga)
        Exact(r) == Lower(r.State) = Lower(state) /\ Lower(r.LGA) = Lower(lga)
        ByState(r) == Lower(r.State) = Lower(state)
        exact == Rows(econ_data, Exact)
        econ_row == IF exact = <<>> THEN Rows(econ_data, ByState) ELSE exact
    IN  IF econ_row = <<>> THEN <<>>
        ELSE << [fuel_price |-> econ_row[1].Fuel_Price, inflation |-> econ_row[1].Inflation] >>

(***************************************************************************)
(* Surge detection (RiskService.detect_surge)                              *)
(***************************************************************************)
location_key(state, lga) == state \o ":" \o lga

\* round(x, 1) of a value in thousandths (half to even on the decimal value).
Round1(x) ==
    LET q == x \div 100
        r == x % 100
    IN  IF r < 50 THEN q * 100
        ELSE IF r > 50 THEN (q + 1) * 100
        ELSE IF q % 2 = 0 THEN q * 100 ELSE (q + 1) * 100

\* ((current - previous) / previous) * 100 > 20, for previous > 0
SurgeTest(current, previous) == (current - previous) * 100 > 20 * previous

\* detect_surge without the map update of its last statement.
detect_surge_stale(prev, state, lga, current_risk_score) ==
    LET key == location_key(state, lga)
        known == key \in DOMAIN prev
    IN  IF known /\ prev[key] = 0
        THEN [raised |-> TRUE, surge_detected |-> FALSE, previous_score |-> <<0>>,
              prev |-> prev]
        ELSE [raised |-> FALSE,
              surge_detected |-> (known /\ SurgeTest(current_risk_score, prev[key])),
              previous_score |-> IF known THEN <<prev[key]>> ELSE <<>>,
              prev |-> prev]

\* Returns the verdict and the updated map; raised is the ZeroDivisionError of a
\* previous score of 0, which leaves the map as it was.
detect_surge(prev, state, lga, current_risk_score) ==
    LET key == location_key(state, lga)
        known == key \in DOMAIN prev
    IN  IF known /\ prev[key] = 0
        THEN [raised |-> TRUE, surge_detected |-> FALSE, previous_score |-> <<0>>,
              prev |-> prev]
        ELSE [raised |-> FALSE,
              surge_detected |-> (known /\ SurgeTest(current_risk_score, prev[key])),
              previous_score |-> IF known THEN <<prev[key]>> ELSE <<>>,
              prev |-> [k \in DOMAIN prev \cup {key} |->
                           IF k = key THEN current_risk_score ELSE prev[k]]]

(***************************************************************************)
(* Classic scorer (RiskService.calculate_risk_score)                       *)
(***************************************************************************)
\* One assignment to base_score: the new score, the reasons the branch appends,
\* and a history entry naming the branch with what it did.
Apply(acc, name, score, reasons) ==
    [score |-> score,
     reasons |-> acc.reasons \o reasons,
     steps |-> Append(acc.steps, [name |-> name, before |-> acc.score, after |-> score,
                                  reasons |-> reasons])]

RiskLevel(risk_score) ==
    IF risk_score >= M(80) THEN "Critical"
    ELSE IF risk_score >= M(60) THEN "High"
    ELSE IF risk_score >= M(40) THEN "Medium"
    ELSE IF risk_score >= M(20) THEN "Low"
    ELSE "Minimal"

\* The field constraints of the pydantic model RiskSignal.
SeverityPattern == {"low", "medium", "high", "critical"}
RiskLevelPattern == {"Minimal", "Low", "Medium", "High", "Critical"}

RiskSignalValid(sig) ==
    /\ Len(sig.event_type) >= 1 /\ Len(sig.event_type) <= 50
    /\ Len(sig.state) >= 1 /\ Len(sig.state) <= 50
    /\ Len(sig.lga) >= 1 /\ Len(sig.lga) <= 50
    /\ sig.severity \in SeverityPattern
    /\ sig.fuel_price >= 0
    /\ sig.inflation >= 0
    /\ sig.risk_score >= 0 /\ sig.risk_score <= M(100)
    /\ sig.risk_level \in RiskLevelPattern
    /\ TextLen(sig.source_title) >= 3 /\ TextLen(sig.source_title) <= 200
    /\ Len(sig.source_url) >= 10

ClampScore(base_score) == Max2(0, Min2(M(100), base_score))

\* The economic modifiers without the clash rule.
EconomicStageNoClashRule(acc, event_type, inflation, fuel_price) ==
    LET a1 == IF inflation > INFLATION_THRESHOLD
              THEN Apply(acc, "inflation",
                         acc.score + Min2((inflation - INFLATION_THRESHOLD) * 2, M(20)),
                         <<"High inflation">>)
              ELSE acc
    IN  IF fuel_price > FUEL_PRICE_THRESHOLD
        THEN Apply(a1, "fuel",
                   a1.score + Min2((fuel_price - FUEL_PRICE_THRESHOLD) \div 10, M(10)),
                   <<"Elevated fuel prices">>)
        ELSE a1

\* Economic modifiers and the clash rule.
EconomicStage(acc, event_type, inflation, fuel_price) ==
    LET a1 == IF inflation > INFLATION_THRESHOLD
              THEN Apply(acc, "inflation",
                         acc.score + Min2((inflation - INFLATION_THRESHOLD) * 2, M(20)),
                         <<"High inflation">>)
              ELSE acc
        a2 == IF fuel_price > FUEL_PRICE_THRESHOLD
              THEN Apply(a1, "fuel",
                         a1.score + Min2((fuel_price - FUEL_PRICE_THRESHOLD) \div 10, M(10)),
                         <<"Elevated fuel prices">>)
              ELSE a1
    IN  IF event_type = "clash" /\ inflation > INFLATION_THRESHOLD
        THEN Apply(a2, "clash_rule", Max2(a2.score, M(81)), <<>>)
        ELSE a2

\* Flooding multiplier and climate-vulnerability bonus.
ClimateStage(acc, event_type, climate_data, strategic_data) ==
    LET a1 == IF /\ climate_data # <<>>
                 /\ climate_data[1].flood_inundation_index > M(20)
                 /\ event_type \in {"clash", "conflict", "violence"}
              THEN Apply(acc, "flood", (acc.score * 3) \div 2,
                         <<"Flooding-induced displacement">>)
              ELSE acc
    IN  IF strategic_data # <<>> /\ strategic_data[1].climate_vulnerability > 700
        THEN Apply(a1, "climate_vulnerability",
                   a1.score + strategic_data[1].climate_vulnerability * 15,
                   <<"High Climate Vulnerability">>)
        ELSE a1

\* Mining proximity and mining-density bonuses.
MiningProximate(mining_site) ==
    /\ mining_site # <<>>
    /\ mining_site[1].distance_km # 0
    /\ mining_site[1].distance_km < M(10)

MiningDense(strategic_data) ==
    strategic_data # <<>> /\ strategic_data[1].mining_density > 600

MiningStage(acc, mining_site, strategic_data) ==
    LET a1 == IF MiningProximate(mining_site)
              THEN Apply(acc, "mining_proximity", acc.score + M(15),
                         <<"High Funding Potential">>)
              ELSE acc
    IN  IF MiningDense(strategic_data)
        THEN Apply(a1, "mining_density",
                   a1.score + strategic_data[1].mining_density * 20,
                   <<"High Escalation Potential due to Illicit Funding">>)
        ELSE a1

\* Sahelian multiplier.
BorderStage(acc, state, border_data) ==
    IF border_data = <<>> THEN acc
    ELSE IF border_data[1].border_activity = "High" /\ Lower(state) \in {"sokoto", "kebbi"}
         THEN Apply(acc, "lakurawa", acc.score + M(20), <<"Lakurawa Presence Detected">>)
    ELSE IF border_data[1].border_activity = "Critical"
         THEN Apply(acc, "border_critical", acc.score + M(15), <<"Critical border activity">>)
    ELSE IF border_data[1].border_activity = "High"
         THEN Apply(acc, "border_high", acc.score + M(10), <<"High border activity">>)
    ELSE acc

\* Farmer-herder conflict amplified by migration pressure.
FarmerHerderStage(acc, event, strategic_data) ==
    IF /\ is_farmer_herder_conflict(event)
       /\ strategic_data # <<>>
       /\ strategic_data[1].migration_pressure > 500
    THEN Apply(acc, "farmer_herder",
               (acc.score * (1000 + strategic_data[1].migration_pressure)) \div 1000,
               <<"Farmer-Herder Conflict amplified by Migration Pressure">>)
    ELSE acc

\* Climate-conflict correlation.
ClimateZoneStage(acc, climate_risk) ==
    IF climate_risk = <<>> THEN acc
    ELSE IF climate_risk[1].is_high_impact
         THEN Apply(acc, "climate_zone_high", acc.score + M(25), <<"Climate Stress Zone">>)
    ELSE IF climate_risk[1].impact_zone \in {"Medium-High", "Medium"}
         THEN Apply(acc, "climate_zone_medium", acc.score + M(15), <<"Climate Stress Zone">>)
    ELSE acc

\* trigger_reason: the level, the clauses joined by "; ", and the escalation prefix.
TriggerReason(risk_level, reasons, high_escalation_potential) ==
    [prefix |-> high_escalation_potential,
     level |-> risk_level,
     clauses |-> IF reasons # <<>> THEN reasons ELSE <<"Standard risk calculation">>]

\* What a call returns that produced no signal; the map is as the call left it.
NoSignal(prev, scored, steps) ==
    [signal |-> <<>>, prev |-> prev, scored |-> scored, steps |-> steps]

\* The reference lookups of one call: strategic indicators, flood data, nearest
\* mining site, border signal and climate-zone risk of the event's location.
References(event) ==
    [strategic_data |-> get_strategic_indicators(Strip(event.state)),
     climate_data |-> find_climate_data(Strip(event.state), Strip(event.lga)),
     mining_site |-> find_nearest_mining_site(event),
     border_data |-> find_border_data(Strip(event.state), Strip(event.lga)),
     climate_risk |-> calculate_climate_risk(event)]

\* base_score = BASE_RISK_SCORE + event-type score + severity modifier
BaseScore(event) ==
    [score |-> M(BASE_RISK_SCORE + event_type_scores(Lower(event.event_type))
                 + severity_modifiers(Lower(event.severity))),
     reasons |-> <<>>, steps |-> <<>>]

\* The modifiers in the order the code applies them.
Modifiers(event, econ_row, refs) ==
    ClimateZoneStage(
        FarmerHerderStage(
            BorderStage(
                MiningStage(
                    ClimateStage(
                        EconomicStage(BaseScore(event), Lower(event.event_type),
                                      econ_row.inflation, econ_row.fuel_price),
                        Lower(event.event_type), refs.climate_data, refs.strategic_data),
                    refs.mining_site, refs.strategic_data),
                Strip(event.state), refs.border_data),
            event, refs.strategic_data),
        refs.climate_risk)

\* Clamp, level, trigger reason and the RiskSignal constructor.
Conclude(event, econ_row, refs, acc, risk_score, surge_info, prev) ==
    LET reasons == IF surge_info.surge_detected
                   THEN Append(acc.reasons, "SURGE ALERT") ELSE acc.reasons
        risk_level == RiskLevel(risk_score)
        scored == << [key |-> location_key(Strip(event.state), Strip(event.lga)),
                      score |-> risk_score,
                      previous_score |-> surge_info.previous_score,
                      surge_detected |-> surge_info.surge_detected] >>
        sig == [event_type |-> event.event_type,
                state |-> Strip(event.state),
                lga |-> Strip(event.lga),
                severity |-> event.severity,
                fuel_price |-> econ_row.fuel_price,
                inflation |-> econ_row.inflation,
                risk_score |-> Round1(risk_score),
                risk_level |-> risk_level,
                source_title |-> event.source_title,
                source_url |-> event.source_url,
                trigger_reason |-> TriggerReason(risk_level, reasons,
                                                 MiningDense(refs.strategic_data)),
                flood_inundation_index |->
                    IF refs.climate_data = <<>> THEN <<>>
                    ELSE <<refs.climate_data[1].flood_inundation_index>>,
                mining_site_name |->
                    IF refs.mining_site = <<>> THEN <<>>
                    ELSE <<refs.mining_site[1].site_name>>,
                high_funding_potential |-> MiningProximate(refs.mining_site),
                border_activity |->
                    IF refs.border_data = <<>> THEN <<>>
                    ELSE <<refs.border_data[1].border_activity>>,
                lakurawa_presence |->
                    IF refs.border_data = <<>> THEN FALSE
                    ELSE refs.border_data[1].lakurawa_presence_confirmed]
    IN  IF surge_info.raised THEN NoSignal(prev, <<>>, acc.steps)
        \* impact_zone is bound only inside the climate-zone branch: reading it
        \* for the constructor raises UnboundLocalError outside a zone
        ELSE IF refs.climate_risk = <<>> THEN NoSignal(surge_info.prev, scored, acc.steps)
        ELSE IF ~RiskSignalValid(sig) THEN NoSignal(surge_info.prev, scored, acc.steps)
        ELSE [signal |-> <<sig>>, prev |-> surge_info.prev, scored |-> scored,
              steps |-> acc.steps]

\* The score after the modifiers, clamped, goes to detect_surge and the constructor.
ScoreModified(event, econ_row, refs, acc, prev) ==
    Conclude(event, econ_row, refs, acc, ClampScore(acc.score),
             detect_surge(prev, Strip(event.state), Strip(event.lga), ClampScore(acc.score)),
             prev)

\* A scorer that scores an event without an economic row against zeros.
ScoreWithDefaultRow(event, econ_row, refs, prev) ==
    IF econ_row = <<>>
    THEN Conclude(event, [fuel_price |-> 0, inflation |-> 0], refs, BaseScore(event),
                  ClampScore(BaseScore(event).score),
                  detect_surge(prev, Strip(event.state), Strip(event.lga),
                               ClampScore(BaseScore(event).score)), prev)
    ELSE ScoreModified(event, econ_row[1], refs, Modifiers(event, econ_row[1], refs), prev)

ScoreWithRow(event, econ_row, refs, prev) ==
    IF econ_row = <<>> THEN NoSignal(prev, <<>>, <<>>)
    ELSE ScoreModified(event, econ_row[1], refs, Modifiers(event, econ_row[1], refs), prev)

\* Returns the signal (or none), the surge map as the call left it, and the
\* history of the call: the scoring handed to detect_surge and the steps taken.
calculate_risk_score(event, econ_data, prev) ==
    ScoreWithRow(event, find_economic_data(event, econ_data), References(event), prev)

(***************************************************************************)
(* Simulator scorer (RiskService.calculate_risk_score_dynamic)             *)
(***************************************************************************)
\* Slider-driven economic modifiers: the fuel bonus is always added, its reason
\* only above an index of 50.
DynamicEconomicStage(acc, inflation_rate, fuel_price_index) ==
    LET a1 == IF inflation_rate > INFLATION_THRESHOLD
              THEN Apply(acc, "inflation",
                         acc.score + Min2((inflation_rate - INFLATION_THRESHOLD) * 2, M(20)),
                         <<"High inflation">>)
              ELSE acc
    IN  Apply(a1, "fuel", a1.score + fuel_price_index \div 5,
              IF fuel_price_index > M(50) THEN <<"Elevated fuel prices">> ELSE <<>>)

DynamicClimateStage(acc, event_type, climate_data) ==
    IF /\ climate_data # <<>>
       /\ climate_data[1].flood_inundation_index > M(20)
       /\ event_type \in {"clash", "conflict", "violence"}
    THEN Apply(acc, "flood", (acc.score * 3) \div 2, <<"Flooding-induced displacement">>)
    ELSE acc

DynamicMiningStage(acc, mining_site) ==
    IF MiningProximate(mining_site)
    THEN Apply(acc, "mining_proximity", acc.score + M(15), <<"High Funding Potential">>)
    ELSE acc

\* The urban multiplier without its fuel condition.
UrbanStageAnyFuel(acc, lga, fuel_price_index) ==
    IF is_urban_lga(lga)
    THEN Apply(acc, "urban", (acc.score * 3) \div 2, <<"Economic Crisis in Urban Center">>)
    ELSE acc

\* Economic igniter: fuel_price_index > 80 in an urban LGA multiplies by 1.5.
UrbanStage(acc, lga, fuel_price_index) ==
    IF fuel_price_index > M(80) /\ is_urban_lga(lga)
    THEN Apply(acc, "urban", (acc.score * 3) \div 2, <<"Economic Crisis in Urban Center">>)
    ELSE acc

DynamicModifiers(event, fuel_price_index, inflation_rate) ==
    UrbanStage(
        BorderStage(
            DynamicMiningStage(
                DynamicClimateStage(
                    DynamicEconomicStage(BaseScore(event), inflation_rate, fuel_price_index),
                    Lower(event.event_type),
                    find_climate_data(Strip(event.state), Strip(event.lga))),
                find_nearest_mining_site(event)),
            Strip(event.state), find_border_data(Strip(event.state), Strip(event.lga))),
        Strip(event.lga), fuel_price_index)

DynamicSignal(event, acc, risk_score) ==
    [event_type |-> event.event_type,
     state |-> Strip(event.state),
     lga |-> Strip(event.lga),
     severity |-> Lower(event.severity),
     place |-> event.place,
     risk_score |-> Round1(risk_score),
     risk_level |-> RiskLevel(risk_score),
     source_url |-> event.source_url,
     trigger_reason |-> TriggerReason(RiskLevel(risk_score), acc.reasons, FALSE),
     is_urban |-> is_urban_lga(Strip(event.lga)),
     steps |-> acc.steps]

DynamicConclude(event, acc) == DynamicSignal(event, acc, ClampScore(acc.score))

\* None for an event without coordinates, else the simulated signal.
calculate_risk_score_dynamic(event, fuel_price_index, inflation_rate, chatter_intensity) ==
    IF event.place = NoPlace THEN <<>>
    ELSE << DynamicConclude(event, DynamicModifiers(event, fuel_price_index, inflation_rate)) >>

(***************************************************************************)
(* Inputs of the scoring harness                                           *)
(***************************************************************************)
Event(event_type, state, lga, severity, title, url, place) ==
    [event_type |-> event_type, state |-> state, lga |-> lga, severity |-> severity,
     source_title |-> title, source_url |-> url, place |-> place]

ScoreEventTypes == {"clash", "Clash", "conflict", "protest", "sports"}
ScoreSeverities == {"low", "high", "critical", "severe", "High"}
ScoreLocations ==
    { <<"Lagos", "Ikeja">>, <<" Lagos ", "Ikeja">>, <<"Lagos", "Epe">>,
      <<"Sokoto", "Tangaza">>, <<"Benue", "Makurdi">>, <<"Zamfara", "Anka">>,
      <<"Borno", "Maiduguri">>, <<"Atlantis", "Nowhere">> }
ScoreTitles == { <<"clash", "in", "town">>, <<"herder", "attack">> }

ScoreEvents ==
    { Event(t, l[1], l[2], sv, ti, "http://n.ng/a1", pl) :
        t \in ScoreEventTypes, l \in ScoreLocations, sv \in ScoreSeverities,
        ti \in ScoreTitles, pl \in Places \cup {NoPlace} }
    \cup { Event("clash", "Benue", "Makurdi", "high", <<"hi">>, "http://n.ng/a1", "p_high"),
           Event("clash", "Benue", "Makurdi", "high", <<"clash", "in", "town">>, "u/1", "p_high"),
           Event("", "Benue", "Makurdi", "high", <<"clash", "in", "town">>, "http://n.ng/a1", "p_med") }

EmptyMap == [k \in {} |-> 0]
PrevScores == {40000, 62500, 100000}
PrevChoices(e) ==
    {EmptyMap} \cup
    { [k \in {location_key(Strip(e.state), Strip(e.lga))} |-> v] : v \in PrevScores }

Sliders(f, i, c) == [fuel_price_index |-> f, inflation_rate |-> i, chatter_intensity |-> c]
NoSliders == Sliders(0, 0, 0)
SimChoices ==
    { NoSliders, Sliders(M(30), M(25), M(50)), Sliders(M(85), M(30), M(90)),
      Sliders(M(51), M(20), 0) }

(***************************************************************************)
(* Risk Engine: batch scoring, persistence and the processing handlers     *)
(***************************************************************************)
\* The two PredictionService/RiskService pairs of a predictor process: the one
\* main.lifespan builds for the background processor and the one
\* api.endpoints.get_prediction_service builds for the HTTP handlers.
Services == {"main", "api"}

MaxEvents == 2
MaxBuffer == 1

RiskPool ==
    { Event("conflict", "Lagos", "Ikeja", "low", <<"clash", "in", "town">>, "http://n.ng/a1", "p_low"),
      Event("sports", "Lagos", "Ikeja", "low", <<"clash", "in", "town">>, "http://n.ng/a2", "p_low"),
      Event("clash", "Benue", "Makurdi", "high", <<"herder", "attack">>, "http://n.ng/a3", "p_out"),
      Event("protest", "Atlantis", "Nowhere", "low", <<"clash", "in", "town">>, "http://n.ng/a4", "p_high") }

Reverse(seq) == [i \in 1..Len(seq) |-> seq[Len(seq) + 1 - i]]

\* find().sort('parsed_at', -1): newest first.
get_parsed_events == Reverse(parsed_events)

\* calculate_risk_scores_batch: the signals in event order, threading the surge map.
RECURSIVE ScoreBatch(_, _, _, _, _)
RECURSIVE ScoreRest(_, _, _, _, _)
ScoreRest(events, econ_data, signals, scorings, r) ==
    ScoreBatch(Tail(events), econ_data, r.prev, signals \o r.signal, scorings \o r.scored)

ScoreBatch(events, econ_data, prev, signals, scorings) ==
    IF events = <<>> THEN [signals |-> signals, prev |-> prev, scorings |-> scorings]
    ELSE ScoreRest(events, econ_data, signals, scorings,
                   calculate_risk_score(Head(events), econ_data, prev))

calculate_risk_scores_batch(events, econ_data, prev) ==
    ScoreBatch(events, econ_data, prev, <<>>, <<>>)

\* update_one({'source_url': url}, {'$set': signal}, upsert=True): the first
\* document with the url takes the signal's fields, or the signal is inserted.
RECURSIVE FirstWithUrl(_, _, _)
FirstWithUrl(coll, url, i) ==
    IF i > Len(coll) THEN 0
    ELSE IF coll[i].source_url = url THEN i
    ELSE FirstWithUrl(coll, url, i + 1)

InsertSignalAlways(coll, signal) == Append(coll, signal)

UpsertSignal(coll, signal) ==
    LET i == FirstWithUrl(coll, signal.source_url, 1)
    IN  IF i = 0 THEN Append(coll, signal) ELSE [coll EXCEPT ![i] = signal]

RECURSIVE save_risk_signals(_, _)
save_risk_signals(coll, signals) ==
    IF signals = <<>> THEN coll
    ELSE save_risk_signals(UpsertSignal(coll, Head(signals)), Tail(signals))

\* History: the latest score of each location key after a run's scorings.
RECURSIVE Latest(_, _)
Latest(seen, scorings) ==
    IF scorings = <<>> THEN seen
    ELSE Latest([k \in DOMAIN seen \cup {Head(scorings).key} |->
                    IF k = Head(scorings).key THEN Head(scorings).score ELSE seen[k]],
                Tail(scorings))

NoPasses == [by |-> "none", n |-> 0]

\* What a handler does with the batch it scored: the instance's surge map is as
\* the scorer left it and the signals are upserted.
SaveBatch(s, batch) ==
    /\ previous_risk_scores' = [previous_risk_scores EXCEPT ![s] = batch.prev]
    /\ risk_signals' = save_risk_signals(risk_signals, batch.signals)
    /\ lastSeen' = [lastSeen EXCEPT ![s] = Latest(lastSeen[s], batch.scorings)]

\* PredictionService.process_risk_predictions: one full cycle of instance s (the
\* background loop of s, GET /predict or POST /predict).  It holds no suspension
\* point, so the cycle is one step.
PredictionsCycle(s) ==
    IF get_parsed_events = <<>> \/ economic_data = <<>>
    THEN UNCHANGED riskVars
    ELSE /\ SaveBatch(s, calculate_risk_scores_batch(get_parsed_events, economic_data,
                                                     previous_risk_scores[s]))
         /\ passes' = IF passes.by = s THEN [by |-> s, n |-> Min2(passes.n + 1, 2)]
                      ELSE [by |-> s, n |-> 1]
         /\ UNCHANGED <<parsed_events, economic_data, events_buffer>>

ProcessRiskPredictions(s) ==
    /\ PredictionsCycle(s)
    /\ UNCHANGED <<lifeVars, batchVars, fetchVars, brokerVars, simVars, dedupVars, llmVars,
                   scoreVars, ingestVars, classifierVars>>

\* The tasks that run PredictionService.start_background_processor in one
\* predictor process: the one main.lifespan creates on its own service and
\* the ones POST /start-processor creates, one per request, on the service of
\* api.endpoints.
MaxStartRequests == 2
Loops == {0} \cup (1..MaxStartRequests)
LoopService(l) == IF l = 0 THEN "main" ELSE "api"

FrameOfLoops ==
    UNCHANGED <<scheduler_running, stop_pc, log_snapshot, ticks, high_risk_alerts, news_sources,
                processor_running, closed, article_features, model_replies, flushVars, batchVars, fetchVars,
                brokerVars, simVars, dedupVars, llmVars, scoreVars, ingestVars, classifierVars>>

\* POST /start-processor: asyncio.create_task(start_background_processor()),
\* whatever _running is and however many tasks there are.
\* main.lifespan at startup: asyncio.create_task(start_background_processor())
\* on the service it built.
LifespanStartup ==
    /\ loop_pc[0] = "unstarted"
    /\ loop_pc' = [loop_pc EXCEPT ![0] = "created"]
    /\ UNCHANGED <<service_running, riskVars>>
    /\ FrameOfLoops

StartProcessorRequest(l) ==
    /\ l # 0
    /\ loop_pc[0] # "unstarted"
    /\ loop_pc[l] = "unstarted"
    /\ \A k \in 1..(l - 1) : loop_pc[k] # "unstarted"
    /\ loop_pc' = [loop_pc EXCEPT ![l] = "created"]
    /\ UNCHANGED <<service_running, riskVars>>
    /\ FrameOfLoops

\* POST /stop-processor: stop_background_processor clears the flag.
StopProcessorRequest ==
    /\ loop_pc[0] # "unstarted"
    /\ service_running' = [service_running EXCEPT !["api"] = FALSE]
    /\ UNCHANGED <<loop_pc, riskVars>>
    /\ FrameOfLoops

\* A task from one suspension point to the next.  A created task sets _running
\* and enters the loop; a task woken from its sleep tests `while self._running`.
\* In the loop it flushes the buffer (empty here), runs a full cycle and sleeps
\* POLL_INTERVAL; a cycle that scored events leaves the task at "scored".
LoopIterate(l) ==
    /\ loop_pc[l] \in {"created", "sleeping", "scored"}
    /\ events_buffer[LoopService(l)] = <<>>
    /\ IF loop_pc[l] # "created" /\ ~service_running[LoopService(l)]
       THEN /\ loop_pc' = [loop_pc EXCEPT ![l] = "ended"]
            /\ UNCHANGED <<service_running, riskVars>>
       ELSE /\ service_running' = [service_running EXCEPT ![LoopService(l)] = TRUE]
            /\ PredictionsCycle(LoopService(l))
            /\ loop_pc' = [loop_pc EXCEPT ![l] =
                              IF get_parsed_events # <<>> /\ economic_data # <<>>
                              THEN "scored"
                              ELSE IF loop_pc[l] = "scored" THEN "scored" ELSE "sleeping"]
    /\ FrameOfLoops

\* The reply of the wrapper consume_events installs: ack when the callback
\* returned, nack without requeue when json.loads or the callback raised.
Delivered(body, raised) ==
    << [body |-> body, reply |-> IF raised THEN "nack" ELSE "ack"] >>

\* The wrapper of consume_events with PredictionService.process_event_from_queue
\* as its callback, on a message that holds an event: the event is buffered
\* (the callback catches its own exceptions) and the message is acknowledged.
BufferEvent(s, e) ==
    /\ events_buffer' = [events_buffer EXCEPT ![s] = Append(@, e)]
    /\ last_delivery' = Delivered(e.source_url, FALSE)
    /\ UNCHANGED <<batchVars, fetchVars, simVars, dedupVars, llmVars, parsed_events, economic_data,
                   risk_signals, previous_risk_scores, lastSeen, passes, scoreVars, ingestVars,
                   classifierVars>>

ProcessEventFromQueue(s, e) ==
    /\ Len(events_buffer[s]) < MaxBuffer
    /\ BufferEvent(s, e)
    /\ UNCHANGED lifeVars

\* The wrapper on a message whose body is not JSON: json.loads raises and the
\* message is rejected.
ConsumeMalformed ==
    /\ last_delivery' = Delivered("not json", TRUE)
    /\ UNCHANGED <<lifeVars, batchVars, fetchVars, simVars, dedupVars, llmVars, riskVars, scoreVars, ingestVars, classifierVars>>

\* PredictionService._process_event_buffer: run by the background loop before
\* each cycle and as the task created when the buffer reaches its flush size.
\* The buffer is cleared before the economic data is looked at.
FlushBuffer(s) ==
    /\ events_buffer' = [events_buffer EXCEPT ![s] = <<>>]
    /\ IF economic_data = <<>>
       THEN UNCHANGED <<risk_signals, previous_risk_scores, lastSeen, passes>>
       ELSE /\ SaveBatch(s, calculate_risk_scores_batch(events_buffer[s], economic_data,
                                                        previous_risk_scores[s]))
            /\ passes' = NoPasses
    /\ UNCHANGED <<batchVars, fetchVars, brokerVars, simVars, dedupVars, llmVars, parsed_events,
                   economic_data, scoreVars, ingestVars, classifierVars>>

ProcessEventBuffer(s) ==
    IF events_buffer[s] = <<>>
    THEN UNCHANGED vars
    ELSE FlushBuffer(s) /\ UNCHANGED lifeVars

\* The two handlers with the history of the buffer: what was buffered and what
\* a flush gave to calculate_risk_scores_batch (line 122, reached only when the
\* economic data is not empty).
MaxAccepted == 2
SourceUrls(events) == [i \in 1..Len(events) |-> events[i].source_url]

FrameOfBuffer ==
    UNCHANGED <<scheduler_running, stop_pc, log_snapshot, ticks, high_risk_alerts, news_sources,
                processor_running, closed, article_features, model_replies, procVars>>

AcceptFromQueue(s, e) ==
    /\ Len(accepted[s]) < MaxAccepted
    /\ BufferEvent(s, e)
    /\ accepted' = [accepted EXCEPT ![s] = Append(@, e.source_url)]
    /\ UNCHANGED handed
    /\ FrameOfBuffer

FlushAccepted(s) ==
    /\ events_buffer[s] # <<>>
    /\ FlushBuffer(s)
    /\ handed' = IF economic_data = <<>> THEN handed
                 ELSE [handed EXCEPT ![s] = @ \o SourceUrls(events_buffer[s])]
    /\ UNCHANGED accepted
    /\ FrameOfBuffer

\* The Classifier's insert of a parsed event into the parsed_events collection.
EventStored(e) ==
    /\ Len(parsed_events) < MaxEvents
    /\ parsed_events' = Append(parsed_events, e)
    /\ passes' = NoPasses
    /\ UNCHANGED <<lifeVars, batchVars, fetchVars, brokerVars, simVars, dedupVars, llmVars, economic_data, risk_signals, previous_risk_scores, events_buffer,
                   lastSeen, scoreVars, ingestVars, classifierVars>>

\* MongoDBRepository.initialize_economic_data: the collection is cleared and
\* refilled from the CSV (a CSV without rows leaves it empty).
InitializeEconomicData(rows) ==
    /\ economic_data' = rows
    /\ passes' = IF rows = economic_data THEN passes ELSE NoPasses
    /\ UNCHANGED <<lifeVars, batchVars, fetchVars, brokerVars, simVars, dedupVars, llmVars, parsed_events, risk_signals, previous_risk_scores, events_buffer,
                   lastSeen, scoreVars, ingestVars, classifierVars>>

(***************************************************************************)
(* Scoring harness: one application of each scorer to a drawn input        *)
(***************************************************************************)
ScoreClassic ==
    /\ outClassic = <<>>
    /\ inSim = NoSliders
    /\ outClassic' = << calculate_risk_score(inEvent, EconRows, inPrev) >>
    /\ UNCHANGED <<lifeVars, batchVars, fetchVars, brokerVars, simVars, dedupVars, llmVars, inEvent, inPrev, inSim, outDynamic, riskVars, ingestVars, classifierVars>>

ScoreDynamic ==
    /\ outDynamic = <<>>
    /\ inPrev = EmptyMap
    /\ outDynamic' = << calculate_risk_score_dynamic(inEvent, inSim.fuel_price_index,
                            inSim.inflation_rate, inSim.chatter_intensity) >>
    /\ UNCHANGED <<lifeVars, batchVars, fetchVars, brokerVars, simVars, dedupVars, llmVars, inEvent, inPrev, inSim, outClassic, riskVars, ingestVars, classifierVars>>

(***************************************************************************)
(* Risk Engine: POST /simulate (predictor/api/endpoints.py)                *)
(***************************************************************************)
\* The slider values the requests carry.
SimulationRequests == {Sliders(M(30), M(25), M(50)), Sliders(M(85), M(30), M(90))}

\* The features of the response: one for each event, in the order read, for
\* which the dynamic scorer gives a result.
RECURSIVE SimulatedFeatures(_, _)
SimulatedFeatures(events, params) ==
    IF events = <<>> THEN <<>>
    ELSE calculate_risk_score_dynamic(Head(events), params.fuel_price_index,
                                      params.inflation_rate, params.chatter_intensity)
             \o SimulatedFeatures(Tail(events), params)

\* The handler with the classic scorer of the api's RiskService in place of
\* the dynamic scorer of a RiskService of its own.
SimulateOnEngineService(params) ==
    /\ simulation_response' =
          << [features |-> SimulatedFeatures(get_parsed_events, params),
              simulation_params |-> params] >>
    /\ previous_risk_scores' =
          [previous_risk_scores EXCEPT !["api"] =
              calculate_risk_scores_batch(get_parsed_events, economic_data, @).prev]
    /\ UNCHANGED <<lifeVars, batchVars, fetchVars, brokerVars, dedupVars, llmVars, parsed_events, economic_data, risk_signals,
                   events_buffer, lastSeen, passes, scoreVars, ingestVars, classifierVars>>

\* simulate_risk_scenarios: the stored events and the economic data are read,
\* each event is scored by calculate_risk_score_dynamic of a RiskService built
\* for the request, and the features are returned.
SimulateRiskScenarios(params) ==
    /\ simulation_response' =
          << [features |-> SimulatedFeatures(get_parsed_events, params),
              simulation_params |-> params] >>
    /\ UNCHANGED <<lifeVars, batchVars, fetchVars, brokerVars, dedupVars, llmVars, riskVars, scoreVars, ingestVars, classifierVars>>

(***************************************************************************)
(* Ingestor: the articles collection and queue (scraper)                   *)
(***************************************************************************)
\* The dictionary scrape_article returns: title, content, source, url and
\* scraped_at (a clock reading, left out); it has no other key.
Article(url, title, content) ==
    [url |-> url, title |-> title, content |-> content, source |-> "premiumtimesng.com"]

\* What a scrape can return: an article, the same url with the page as edited
\* later, and an article of another url.  Texts are lower-case word sequences.
ArtClash ==
    Article("http://n.ng/a1", <<"herders", "clash", "in", "ikeja">>,
            <<"two", "farmers", "were", "killed", "in", "lagos", "when", "fighting",
              "broke", "out", "on", "monday">>)
ArtClashEdited ==
    Article("http://n.ng/a1", <<"clash">>,
            <<"update", "three", "farmers", "were", "killed", "in", "lagos", "on",
              "monday", "police", "said", "today">>)
ArtSports ==
    Article("http://n.ng/a2", <<"eagles", "win", "the", "cup">>,
            <<"the", "national", "team", "won", "the", "final", "game", "in", "abuja",
              "on", "sunday", "night">>)

ArticlePool == {ArtClash, ArtClashEdited, ArtSports}
Urls == {a.url : a \in ArticlePool}

MaxBatch == 2
MaxQueue == 2
MaxManual == 1

\* The lists a scrape can return (an href seen twice is fetched twice).
ScrapedBatches == UNION { [1..n -> ArticlePool] : n \in 0..MaxBatch }

HasUrl(coll, url) == \E i \in 1..Len(coll) : coll[i].url = url

\* update_one with $set in place of $setOnInsert.
OverwriteArticle(coll, article) ==
    IF HasUrl(coll, article.url)
    THEN [i \in 1..Len(coll) |-> IF coll[i].url = article.url THEN article ELSE coll[i]]
    ELSE Append(coll, article)

\* update_one({'url': url}, {'$setOnInsert': article}, upsert=True): a document
\* with the url is left as it is, else the article is inserted.
UpsertArticle(coll, article) ==
    IF HasUrl(coll, article.url) THEN coll ELSE Append(coll, article)

RECURSIVE UpsertArticles(_, _)
UpsertArticles(coll, batch) ==
    IF batch = <<>> THEN coll
    ELSE UpsertArticles(UpsertArticle(coll, Head(batch)), Tail(batch))

\* MongoDBRepository.save_articles.  connected: _connect reached the server
\* (else collection is None); truth: bool() of a Collection; n: the number of
\* update_one calls that return before a PyMongoError (all of them if n is the
\* length of the batch).  result is the value returned, or "raised".
save_articles(coll, batch, connected, truth, n) ==
    IF ~connected THEN [coll |-> coll, result |-> "true", offered |-> <<>>]
    ELSE IF truth = "raises" THEN [coll |-> coll, result |-> "raised", offered |-> <<>>]
    ELSE [coll |-> UpsertArticles(coll, SubSeq(batch, 1, n)),
          result |-> IF n < Len(batch) THEN "false" ELSE "true",
          offered |-> SubSeq(batch, 1, n)]

\* MessageBrokerService.publish_articles.  channel: _connect reached the broker;
\* k: the number of basic_publish calls that return before an AMQPError.
publish_articles(queue, batch, channel, k) ==
    IF ~channel THEN [queue |-> queue, result |-> "true"]
    ELSE [queue |-> queue \o [i \in 1..k |-> batch[i].url],
          result |-> IF k < Len(batch) THEN "false" ELSE "true"]

\* History: the first and the latest article offered to an upsert, per url.
NeverSaved == [u \in Urls |-> [first |-> <<>>, last |-> <<>>]]

RECURSIVE Offered(_, _)
Offered(rec, batch) ==
    IF batch = <<>> THEN rec
    ELSE Offered([rec EXCEPT ![Head(batch).url] =
                      [first |-> IF @.first = <<>> THEN <<Head(batch)>> ELSE @.first,
                       last |-> <<Head(batch)>>]],
                 Tail(batch))

\* What a handler does with the outcome of save_articles and publish_articles.
StoreAndPublish(batch, stored, channel, k) ==
    /\ articles' = stored.coll
    /\ saved' = Offered(saved, stored.offered)
    /\ articles_queue' =
          IF stored.result = "raised" THEN articles_queue
          ELSE publish_articles(articles_queue, batch, channel, k).queue

\* The status scrape_news answers with: "warning" without articles, "success"
\* if save_articles and publish_articles both returned True, else "partial";
\* an exception of either call gives a 500 response ("error").
ScrapeStatus(batch, db, mq) ==
    IF batch = <<>> THEN "warning"
    ELSE IF db.result = "raised" THEN "error"
    ELSE IF db.result = "true" /\ mq.result = "true" THEN "success"
    ELSE "partial"

\* The response, with history of what the calls did: written, every article
\* of the batch was offered to the store; published, every article of the
\* batch was sent to the queue.
Responded(batch, db, mq, connected, channel) ==
    [status |-> ScrapeStatus(batch, db, mq),
     written |-> connected /\ db.result = "true" /\ Len(db.offered) = Len(batch),
     published |-> db.result # "raised" /\ channel /\ mq.result = "true"]

\* GET /scrape up to its first suspension (the fetch of the front page).
ScrapeNewsStart ==
    /\ scrapes_in_flight < MaxManual
    /\ scrapes_in_flight' = scrapes_in_flight + 1
    /\ UNCHANGED <<lifeVars, batchVars, fetchVars, brokerVars, simVars, dedupVars, llmVars, scrape_response, articles, articles_queue, collection_truth, is_running, instances,
                   job_pc, automation_log, lastTick, saved, riskVars, scoreVars,
                   classifierVars>>

\* GET /scrape from the return of the scrape: nothing scraped is a warning;
\* else save_articles then publish_articles; an exception of save_articles ends
\* the request with a 500 before anything is published.
ScrapeNewsFinish(batch, connected, n, channel, k) ==
    /\ scrapes_in_flight > 0
    /\ Len(articles_queue) + Len(batch) <= MaxQueue
    /\ scrapes_in_flight' = scrapes_in_flight - 1
    /\ IF batch = <<>>
       THEN UNCHANGED <<articles, saved, articles_queue>>
       ELSE StoreAndPublish(batch,
                save_articles(articles, batch, connected, collection_truth, n), channel, k)
    /\ scrape_response' =
          << Responded(batch, save_articles(articles, batch, connected, collection_truth, n),
                       publish_articles(articles_queue, batch, channel, k), connected, channel) >>
    /\ UNCHANGED <<lifeVars, batchVars, fetchVars, brokerVars, simVars, dedupVars, llmVars, collection_truth, is_running, instances, job_pc, automation_log,
                   lastTick, riskVars, scoreVars, classifierVars>>

(***************************************************************************)
(* Ingestor: the scheduled scrape job (scraper/services/scheduler.py)      *)
(***************************************************************************)
\* add_job(..., max_instances=1)
MaxInstances == 1
\* logs = logs[-100:]
AUTOMATION_LOG_KEEP == 100

MaxWorkers == 2
MaxLog == 3
Workers == 1..MaxWorkers

LastN(seq, n) == IF Len(seq) <= n THEN seq ELSE SubSeq(seq, Len(seq) - n + 1, Len(seq))

\* AutomationScheduler._log_automation_event
LogAutomationEvent(log, event_type, status) ==
    LastN(Append(log, [event_type |-> event_type, status |-> status]), AUTOMATION_LOG_KEEP)

\* A scheduler that submits the job whatever the number of running instances.
CanSubmitAlways(running) == TRUE

\* The scheduler submits a due job to the executor only while fewer than
\* max_instances instances of it are running.
CanSubmit(running) == running < MaxInstances

Idle(w) == job_pc[w] = "idle"
CycleRunning == \E w \in Workers : ~Idle(w)

\* What the scheduler does with a due run: the job is submitted to a free
\* executor thread, or the run is skipped; the scheduler thread waits for neither.
SubmitDueRun ==
    IF CanSubmit(instances) /\ (\E w \in Workers : Idle(w))
    THEN /\ \E w \in Workers :
               /\ Idle(w)
               /\ job_pc' = [job_pc EXCEPT ![w] = "submitted"]
         /\ instances' = instances + 1
         /\ lastTick' = "submitted"
    ELSE /\ lastTick' = "skipped"
         /\ UNCHANGED <<job_pc, instances>>

\* A cron tick (every 15 minutes) of the started scheduler.
Tick ==
    /\ Len(automation_log) < MaxLog
    /\ SubmitDueRun
    /\ UNCHANGED <<lifeVars, batchVars, fetchVars, brokerVars, simVars, dedupVars, llmVars, articles, articles_queue, collection_truth, is_running, automation_log,
                   scrapes_in_flight, scrape_response, saved, riskVars, scoreVars, classifierVars>>

\* _scrape_job, lines 64-68: return if a job is running, else take the flag.
JobStart(w) ==
    /\ job_pc[w] = "submitted"
    /\ IF is_running
       THEN /\ job_pc' = [job_pc EXCEPT ![w] = "idle"]
            /\ instances' = instances - 1
            /\ UNCHANGED is_running
       ELSE /\ is_running' = TRUE
            /\ job_pc' = [job_pc EXCEPT ![w] = "running"]
            /\ UNCHANGED instances
    /\ UNCHANGED <<lifeVars, batchVars, fetchVars, brokerVars, simVars, dedupVars, llmVars, articles, articles_queue, collection_truth, automation_log, lastTick,
                   scrapes_in_flight, scrape_response, saved, riskVars, scoreVars, classifierVars>>

\* A job body without the finally clause: the flag stays set.
JobRunKeepsFlag(w) ==
    /\ job_pc[w] = "running"
    /\ automation_log' = LogAutomationEvent(automation_log, "scheduled_scrape", "error")
    /\ job_pc' = [job_pc EXCEPT ![w] = "idle"]
    /\ instances' = instances - 1
    /\ UNCHANGED <<lifeVars, batchVars, fetchVars, brokerVars, simVars, dedupVars, llmVars, is_running, articles, articles_queue, collection_truth, lastTick,
                   scrapes_in_flight, scrape_response, saved, riskVars, scoreVars, classifierVars>>

\* _scrape_job, lines 71-143: ScrapingService has no scrape_multiple_sources, so
\* the call at line 83 raises AttributeError: the handler logs the error and the
\* finally clause releases the flag.  Nothing is scraped, saved or published.
JobRun(w) ==
    /\ job_pc[w] = "running"
    /\ automation_log' = LogAutomationEvent(automation_log, "scheduled_scrape", "error")
    /\ is_running' = FALSE
    /\ job_pc' = [job_pc EXCEPT ![w] = "idle"]
    /\ instances' = instances - 1
    /\ UNCHANGED <<lifeVars, batchVars, fetchVars, brokerVars, simVars, dedupVars, llmVars, articles, articles_queue, collection_truth, lastTick, scrapes_in_flight, scrape_response,
                   saved, riskVars, scoreVars, classifierVars>>

(***************************************************************************)
(* Ingestor: the writers of the automation log (scraper/services/           *)
(* scheduler.py, scraper/main.py).  The job runs in an executor thread and  *)
(* stop() in the thread of the lifespan; each reads the file, appends its   *)
(* entry and writes the file back.                                          *)
(***************************************************************************)
MaxTicks == 2
Writers == {"job", "stop"}
NoSnapshots == [x \in Writers |-> <<>>]

\* The entries /data/automation_logs.json holds from earlier runs of the service.
EarlierEntries(n) == [i \in 1..n |-> [event_type |-> "scheduled_scrape", status |-> "error"]]
EarlierLogs == {EarlierEntries(n) : n \in {0, AUTOMATION_LOG_KEEP - 2, AUTOMATION_LOG_KEEP}}

\* A cron tick while the scheduler runs; none comes after shutdown().
CronTick ==
    /\ scheduler_running
    /\ ticks < MaxTicks
    /\ SubmitDueRun
    /\ ticks' = ticks + 1
    /\ UNCHANGED <<scheduler_running, stop_pc, log_snapshot, high_risk_alerts, news_sources, processor_running, closed, article_features, model_replies, procVars, flushVars>>
    /\ UNCHANGED <<batchVars, fetchVars, brokerVars, simVars, dedupVars, llmVars, articles, articles_queue, collection_truth, is_running, automation_log,
                   scrapes_in_flight, scrape_response, saved, riskVars, scoreVars, classifierVars>>

\* _scrape_job up to _log_automation_event, lines 42-45: the call at line 83
\* has raised, and the handler reads the file.
JobReadLog(w) ==
    /\ job_pc[w] = "running"
    /\ log_snapshot["job"] = <<>>
    /\ log_snapshot' = [log_snapshot EXCEPT !["job"] = <<automation_log>>]
    /\ UNCHANGED <<scheduler_running, stop_pc, ticks, high_risk_alerts, news_sources, processor_running, closed, article_features, model_replies, procVars, flushVars>>
    /\ UNCHANGED <<batchVars, fetchVars, brokerVars, simVars, dedupVars, llmVars, ingestVars, riskVars, scoreVars, classifierVars>>

\* _log_automation_event, lines 47-58, and the finally clause of _scrape_job:
\* the entry is appended to what was read, the last 100 are written back.
JobWriteLog(w) ==
    /\ job_pc[w] = "running"
    /\ log_snapshot["job"] # <<>>
    /\ automation_log' = LogAutomationEvent(log_snapshot["job"][1], "scheduled_scrape", "error")
    /\ log_snapshot' = [log_snapshot EXCEPT !["job"] = <<>>]
    /\ is_running' = FALSE
    /\ job_pc' = [job_pc EXCEPT ![w] = "idle"]
    /\ instances' = instances - 1
    /\ UNCHANGED <<scheduler_running, stop_pc, ticks, high_risk_alerts, news_sources, processor_running, closed, article_features, model_replies, procVars, flushVars>>
    /\ UNCHANGED <<batchVars, fetchVars, brokerVars, simVars, dedupVars, llmVars, articles, articles_queue, collection_truth, lastTick, scrapes_in_flight, scrape_response,
                   saved, riskVars, scoreVars, classifierVars>>

\* AutomationScheduler.stop, lines 233-234: shutdown(wait=False) stops the
\* scheduler and returns while a submitted job goes on in its thread.
StopShutdown ==
    /\ stop_pc = "serving"
    /\ scheduler_running
    /\ scheduler_running' = FALSE
    /\ stop_pc' = "logging"
    /\ UNCHANGED <<log_snapshot, ticks, high_risk_alerts, news_sources, processor_running, closed, article_features, model_replies, procVars, flushVars>>
    /\ UNCHANGED <<batchVars, fetchVars, brokerVars, simVars, dedupVars, llmVars, ingestVars, riskVars, scoreVars, classifierVars>>

\* stop, line 237, in _log_automation_event, lines 42-45: the file is read.
StopReadLog ==
    /\ stop_pc = "logging"
    /\ log_snapshot["stop"] = <<>>
    /\ log_snapshot' = [log_snapshot EXCEPT !["stop"] = <<automation_log>>]
    /\ UNCHANGED <<scheduler_running, stop_pc, ticks, high_risk_alerts, news_sources, processor_running, closed, article_features, model_replies, procVars, flushVars>>
    /\ UNCHANGED <<batchVars, fetchVars, brokerVars, simVars, dedupVars, llmVars, ingestVars, riskVars, scoreVars, classifierVars>>

\* _log_automation_event, lines 47-58, for stop: "scheduler_stop" is appended
\* to what was read, the last 100 are written back.
StopWriteLog ==
    /\ stop_pc = "logging"
    /\ log_snapshot["stop"] # <<>>
    /\ automation_log' = LogAutomationEvent(log_snapshot["stop"][1], "scheduler_stop", "success")
    /\ log_snapshot' = [log_snapshot EXCEPT !["stop"] = <<>>]
    /\ stop_pc' = "stopped"
    /\ UNCHANGED <<scheduler_running, ticks, high_risk_alerts, news_sources, processor_running, closed, article_features, model_replies, procVars, flushVars>>
    /\ UNCHANGED <<batchVars, fetchVars, brokerVars, simVars, dedupVars, llmVars, articles, articles_queue, collection_truth, is_running, instances, job_pc, lastTick,
                   scrapes_in_flight, scrape_response, saved, riskVars, scoreVars, classifierVars>>

(***************************************************************************)
(* Ingestor: the high-risk alerts file (scraper/services/scheduler.py).     *)
(* The only code that writes it is _trigger_high_risk_webhook, called at    *)
(* line 109 of _scrape_job for scraped articles that carry a risk_score     *)
(* above 85; the job raises at line 83 before it gets there.  The Risk      *)
(* Engine (predictor) has no code that opens the file.                      *)
(***************************************************************************)
\* a.get('risk_score', 0) > 85
HIGH_RISK_THRESHOLD == 85
\* existing_alerts = existing_alerts[-20:]
HIGH_RISK_ALERTS_KEEP == 20
\* articles[:5]
HIGH_RISK_ALERT_ARTICLES == 5

\* _scrape_job, line 101
HighRiskArticles(scraped) ==
    SelectSeq(scraped,
              LAMBDA a : (IF "risk_score" \in DOMAIN a THEN a.risk_score ELSE 0)
                             > M(HIGH_RISK_THRESHOLD))

\* _trigger_high_risk_webhook: the file after the call.
TriggerHighRiskWebhook(existing_alerts, high_risk) ==
    LastN(Append(existing_alerts,
                 [count |-> Len(high_risk),
                  urls |-> [i \in 1..Min2(Len(high_risk), HIGH_RISK_ALERT_ARTICLES) |->
                               high_risk[i].url]]),
          HIGH_RISK_ALERTS_KEEP)

(***************************************************************************)
(* Ingestor: the configured sources (scraper/utils/config.py).  A source    *)
(* is kept with what a scrape of it gives at the time of the cycle.  Only   *)
(* scraping_service_v2_backup.py reads the list, and no module imports it.  *)
(***************************************************************************)
MaxSources == 2
SourceNames == <<"Vanguard News", "Premium Times">>
SourceOutcomes == {"ok", "fetch_error", "timeout", "parse_exception"}

Source(name, outcome) == [name |-> name, outcome |-> outcome]

\* Config.NEWS_SOURCES as shipped, every source reachable.
NEWS_SOURCES == [i \in 1..MaxSources |-> Source(SourceNames[i], "ok")]

\* The lists the setting can hold, with the outcomes the sources can have.
SourceLists ==
    UNION { { [i \in 1..n |-> Source(SourceNames[i], o[i])] : o \in [1..n -> SourceOutcomes] } :
            n \in 0..MaxSources }

\* The articles a reachable source has on its front page.
SourceArticles(source) ==
    IF source.outcome # "ok" THEN <<>>
    ELSE IF source.name = "Vanguard News" THEN <<ArtClash>> ELSE <<ArtSports>>

(***************************************************************************)
(* Ingestor: outbound requests (scraper/services/base_scraper.py,          *)
(* rss_intelligence_scraper.py, scraping_service.py)                       *)
(***************************************************************************)
\* asyncio.Semaphore(Config.MAX_CONCURRENT_CONNECTIONS).  Config defines no
\* attribute of this name; the size is taken as 10.
MAX_CONCURRENT_CONNECTIONS == 10

\* The tasks that can be in RSSParser.parse_feed and in
\* ScrapingService.fetch_page at a time.
MaxFeeds == 3
MaxPlain == 2

NoFetches == [page |-> 0, feed |-> 0, plain |-> 0]

\* BaseScraper.fetch_page: a permit of GLOBAL_SEMAPHORE is taken (the task waits
\* while none is left), then the GET is sent.
FetchPageStart ==
    /\ semaphore_value > 0
    /\ semaphore_value' = semaphore_value - 1
    /\ fetches' = [fetches EXCEPT !.page = @ + 1]
    /\ UNCHANGED <<lifeVars, batchVars, brokerVars, simVars, dedupVars, llmVars, riskVars, scoreVars, ingestVars,
                   classifierVars>>

\* The GET returned or raised: the permit is given back.
FetchPageFinish ==
    /\ fetches.page > 0
    /\ semaphore_value' = semaphore_value + 1
    /\ fetches' = [fetches EXCEPT !.page = @ - 1]
    /\ UNCHANGED <<lifeVars, batchVars, brokerVars, simVars, dedupVars, llmVars, riskVars, scoreVars, ingestVars,
                   classifierVars>>

\* RSSIntelligenceScraper.scrape: parse_feed runs in a thread and feedparser
\* fetches the feed; the semaphore is not touched.
ParseFeedStart ==
    /\ fetches.feed < MaxFeeds
    /\ fetches' = [fetches EXCEPT !.feed = @ + 1]
    /\ UNCHANGED <<lifeVars, batchVars, semaphore_value, brokerVars, simVars, dedupVars, llmVars, riskVars, scoreVars,
                   ingestVars, classifierVars>>

ParseFeedFinish ==
    /\ fetches.feed > 0
    /\ fetches' = [fetches EXCEPT !.feed = @ - 1]
    /\ UNCHANGED <<lifeVars, batchVars, semaphore_value, brokerVars, simVars, dedupVars, llmVars, riskVars, scoreVars,
                   ingestVars, classifierVars>>

\* ScrapingService.fetch_page, the fetch of GET /scrape: client.get with no
\* semaphore.
PlainFetchStart ==
    /\ fetches.plain < MaxPlain
    /\ fetches' = [fetches EXCEPT !.plain = @ + 1]
    /\ UNCHANGED <<lifeVars, batchVars, semaphore_value, brokerVars, simVars, dedupVars, llmVars, riskVars, scoreVars,
                   ingestVars, classifierVars>>

PlainFetchFinish ==
    /\ fetches.plain > 0
    /\ fetches' = [fetches EXCEPT !.plain = @ - 1]
    /\ UNCHANGED <<lifeVars, batchVars, semaphore_value, brokerVars, simVars, dedupVars, llmVars, riskVars, scoreVars,
                   ingestVars, classifierVars>>

(***************************************************************************)
(* Ingestor: deduplication (scraper/services/deduplication.py)             *)
(***************************************************************************)
\* An article as deduplicate_and_score reads it.  Texts are strings here, since
\* the fingerprint is taken of title + content.  fingerprint "" stands for a
\* missing, None or empty fingerprint, which the function treats alike.
Candidate(url, source, title, content, fingerprint) ==
    [url |-> url, source |-> source, title |-> title, content |-> content,
     fingerprint |-> fingerprint]

\* An article of the scrapers that extract features (mainstream_media_scraper,
\* rss_intelligence_scraper): the dictionary under its 'features' key.
WithFeatures(article, features) == ("features" :> features) @@ article

\* SHA-256 of the text as hex, taken to be free of collisions.
generate_fingerprint(content) ==
    IF content = "" THEN "" ELSE "sha256:" \o content

\* One report of three outlets, one of them twice; the same text cut into title
\* and content at another place; and a second report, once with a fingerprint
\* that was taken of an earlier text of the page.
CandidatePool ==
    { Candidate("http://pt.ng/1", "premiumtimes", "clash in ikeja", ": two killed", ""),
      Candidate("http://vg.ng/1", "vanguard", "clash in ikeja", ": two killed", ""),
      Candidate("http://pt.ng/2", "premiumtimes", "clash in ikeja", ": two killed", ""),
      Candidate("http://pn.ng/1", "punch", "clash in", " ikeja: two killed", ""),
      Candidate("http://vg.ng/2", "vanguard", "eagles win", ": the cup",
                generate_fingerprint("eagles win: a cup")),
      Candidate("http://pn.ng/2", "punch", "eagles win", ": the cup", ""),
      WithFeatures(Candidate("http://pt.ng/3", "premiumtimes", "clash in ikeja", ": two killed", ""),
                   [conflict_type |-> "Unknown"]),
      WithFeatures(Candidate("http://pn.ng/3", "punch", "clash in ikeja", ": two killed", ""),
                   [conflict_type |-> "Unknown", verification_needed |-> TRUE]) }

MaxCandidates == 3
CandidateLists == UNION { [1..n -> CandidatePool] : n \in 0..MaxCandidates }

\* The article after the first loop has seen it: a fingerprint that is missing
\* is generated from title + content.
Fingerprinted(article) ==
    IF article.fingerprint = ""
    THEN [article EXCEPT !.fingerprint = generate_fingerprint(article.title \o article.content)]
    ELSE article

\* The set processed_fingerprints: the non-empty fingerprints of the list.
processed_fingerprints(list) ==
    {Fingerprinted(list[i]).fingerprint : i \in 1..Len(list)} \ {""}

\* fingerprint_to_articles[fingerprint]: the articles of the fingerprint, in
\* the order of the list.
related_articles(list, fingerprint) ==
    SelectSeq([i \in 1..Len(list) |-> Fingerprinted(list[i])],
              LAMBDA article : article.fingerprint = fingerprint)

\* len(related_articles) in place of the number of distinct sources.
SourceCountOfArticles(related) == Len(related)

\* len(set(article['source'] for article in related_articles))
SourceCount(related) ==
    Cardinality({related[i].source : i \in 1..Len(related)})

\* min(1.0, source_count * 0.5), in thousandths.
VeracityScore(source_count) == Min2(M(1), source_count * 500)

\* The copy of the first article, without its fingerprint.
RepresentativeWithoutFingerprint(related) ==
    ("veracity_score" :> VeracityScore(SourceCount(related)))
        @@ ("source_count" :> SourceCount(related))
        @@ [related[1] EXCEPT !.fingerprint = ""]

VERIFICATION_THRESHOLD == 800

\* The flag set whatever the number of sources.
FlagWhateverSourceCount(primary_article) ==
    IF "features" \in DOMAIN primary_article
    THEN [primary_article EXCEPT !.features =
             ("verification_needed" :> (primary_article.veracity_score < VERIFICATION_THRESHOLD))
                 @@ primary_article.features]
    ELSE primary_article

\* if source_count > 1: if 'features' in primary_article:
\*     primary_article['features']['verification_needed'] = veracity_score < 0.8
FlagForVerification(primary_article) ==
    IF primary_article.source_count > 1 /\ "features" \in DOMAIN primary_article
    THEN [primary_article EXCEPT !.features =
             ("verification_needed" :> (primary_article.veracity_score < VERIFICATION_THRESHOLD))
                 @@ primary_article.features]
    ELSE primary_article

\* primary_article: a copy of the first article of the fingerprint with
\* veracity_score and source_count set, and flagged for verification.
Representative(related) ==
    FlagForVerification(
        ("veracity_score" :> VeracityScore(SourceCount(related)))
            @@ ("source_count" :> SourceCount(related))
            @@ related[1])

\* The orders in which a Python set of strings can be iterated.
IterationOrders(S) ==
    {order \in [1..Cardinality(S) -> S] :
        \A i, j \in 1..Cardinality(S) : order[i] = order[j] => i = j}

\* DeduplicationService.deduplicate_and_score; order is the iteration order of
\* processed_fingerprints.
deduplicate_and_score(list, order) ==
    [k \in 1..Len(order) |-> Representative(related_articles(list, order[k]))]

\* deduplicate_and_score applied to the candidates.
DeduplicateAndScore(order) ==
    /\ dedup_pc = "new"
    /\ dedup_pc' = "once"
    /\ deduplicated_articles' = deduplicate_and_score(candidates, order)
    /\ UNCHANGED <<lifeVars, batchVars, fetchVars, brokerVars, simVars, candidates, deduplicated_again, llmVars, riskVars, scoreVars,
                   ingestVars, classifierVars>>

\* deduplicate_and_score applied to what it returned.
DeduplicateAgain(order) ==
    /\ dedup_pc = "once"
    /\ dedup_pc' = "twice"
    /\ deduplicated_again' = deduplicate_and_score(deduplicated_articles, order)
    /\ UNCHANGED <<lifeVars, batchVars, fetchVars, brokerVars, simVars, candidates, deduplicated_articles, llmVars, riskVars, scoreVars,
                   ingestVars, classifierVars>>

(***************************************************************************)
(* Classifier: rule-based extraction (intelligence_api/simple_extractor)   *)
(***************************************************************************)
\* str.title() on the names the model uses.
Title(s) ==
    CASE s = "lagos" -> "Lagos"
      [] s = "abuja" -> "Abuja"
      [] s = "ikeja" -> "Ikeja"
      [] s = "surulere" -> "Surulere"
      [] OTHER -> s

\* The one-word keys of STATE_COORDINATES.
NIGERIAN_STATES ==
    {"abia", "adamawa", "anambra", "bauchi", "bayelsa", "benue", "borno", "delta",
     "ebonyi", "edo", "ekiti", "enugu", "gombe", "imo", "jigawa", "kaduna", "kano",
     "katsina", "kebbi", "kogi", "kwara", "lagos", "nasarawa", "niger", "ogun", "ondo",
     "osun", "oyo", "plateau", "rivers", "sokoto", "taraba", "yobe", "zamfara", "fct",
     "abuja"}

\* CONFLICT_KEYWORDS in dictionary order (one-word keywords; a keyword matches
\* a word of the text).
CONFLICT_KEYWORDS == <<
    [event_type |-> "clash",      keywords |-> {"clash", "clashes", "fighting", "battle", "combat"}],
    [event_type |-> "protest",    keywords |-> {"protest", "demonstration", "rally", "march"}],
    [event_type |-> "attack",     keywords |-> {"attack", "attacked", "assault", "raid", "strike"}],
    [event_type |-> "kidnapping", keywords |-> {"kidnap", "abduct", "hostage"}],
    [event_type |-> "banditry",   keywords |-> {"bandit", "bandits"}],
    [event_type |-> "terrorism",  keywords |-> {"iswap", "terrorist", "insurgent"}],
    [event_type |-> "communal",   keywords |-> {"communal", "ethnic", "tribal"}],
    [event_type |-> "violence",   keywords |-> {"violence", "violent", "killing", "killed", "death"}] >>

\* The place of a state capital: the rule extractor gives every event the
\* coordinates of its state's capital (Abuja's for an unknown state).
StateCapital == "p_far"

extract_state(words) ==
    LET found == NIGERIAN_STATES \cap words
    IN  IF found = {} THEN "Nigeria" ELSE Title(CHOOSE st \in found : TRUE)

extract_event_type(words) ==
    LET T(entry) == entry.keywords \cap words # {}
        hit == Rows(CONFLICT_KEYWORDS, T)
    IN  IF hit = <<>> THEN "conflict" ELSE hit[1].event_type

extract_severity(words) ==
    IF words \cap {"killed", "death", "massacre", "slaughter", "bomb"} # {} THEN "critical"
    ELSE IF words \cap {"injured", "wounded", "attack", "assault", "kidnap"} # {} THEN "high"
    ELSE IF words \cap {"protest", "clash", "tension"} # {} THEN "medium"
    ELSE "low"

\* The one-word patterns of lga_patterns, in list order.
lga_patterns(state) ==
    CASE state = "Lagos" -> <<"ikeja", "surulere", "alimosho">>
      [] state = "Borno" -> <<"maiduguri", "bama", "gwoza", "konduga">>
      [] state = "Kaduna" -> <<"zaria", "kafanchan">>
      [] state = "Kano" -> <<"nassarawa", "fagge">>
      [] state = "Rivers" -> <<"eleme">>
      [] state = "Abuja" -> <<"gwagwalada", "bwari">>
      [] OTHER -> <<>>

extract_lga(words, state) ==
    LET T(lga) == lga \in words
        hit == Rows(lga_patterns(state), T)
    IN  IF hit = <<>> THEN state \o " Central" ELSE Title(hit[1])

IsConflict(words) == \E i \in 1..Len(CONFLICT_KEYWORDS) : CONFLICT_KEYWORDS[i].keywords \cap words # {}

ExtractedEvent(article, words, state) ==
    Event(extract_event_type(words), state, extract_lga(words, state),
          extract_severity(words), article.title, article.url, StateCapital)

\* simple_extract_event: None for a short title or content, or without a
\* conflict keyword.
simple_extract_event(article) ==
    IF \/ TextLen(article.title) < 10
       \/ TextLen(article.content) < 50
       \/ ~IsConflict(Range(article.title) \cup Range(article.content))
    THEN <<>>
    ELSE << ExtractedEvent(article, Range(article.title) \cup Range(article.content),
                           extract_state(Range(article.title) \cup Range(article.content))) >>

(***************************************************************************)
(* Classifier: model-based extraction (intelligence-api/llm_service)       *)
(***************************************************************************)
\* What call_ollama_llm gets from the model: nothing usable (timeout, error,
\* no JSON, a required field missing) or a JSON object with the four fields.
LLMReplies ==
    { <<>>,
      << [Event_Type |-> "clash", State |-> "Lagos", LGA |-> "Ikeja", Severity |-> "high"] >>,
      << [Event_Type |-> "protest", State |-> "Lagos", LGA |-> "", Severity |-> "High"] >> }

OrUnknown(v) == IF v = "" THEN "unknown" ELSE v

\* The field constraints of the pydantic model ParsedEvent.
ParsedEventValid(ev) ==
    /\ Len(ev.event_type) >= 1 /\ Len(ev.event_type) <= 50
    /\ Len(ev.state) >= 1 /\ Len(ev.state) <= 50
    /\ Len(ev.lga) >= 1 /\ Len(ev.lga) <= 50
    /\ ev.severity \in SeverityPattern
    /\ TextLen(ev.source_title) >= 3 /\ TextLen(ev.source_title) <= 200
    /\ Len(ev.source_url) >= 10

BuiltEvent(ev) == IF ParsedEventValid(ev) THEN <<ev>> ELSE <<>>

\* parse_article_with_llm: the event built from the reply, None without a
\* reply or when the ParsedEvent constructor rejects a field.
parse_article_with_llm(article, reply) ==
    IF reply = <<>> THEN <<>>
    ELSE BuiltEvent(Event(reply[1].Event_Type, OrUnknown(reply[1].State),
                          OrUnknown(reply[1].LGA), OrUnknown(reply[1].Severity),
                          article.title, article.url, NoPlace))

\* For each article of the batch, the event the model gave or None.
LLMResults(batch, replies) ==
    [i \in 1..Len(batch) |-> parse_article_with_llm(batch[i], replies[i])]

RuleResults(batch) == [i \in 1..Len(batch) |-> simple_extract_event(batch[i])]

RECURSIVE Flatten(_)
Flatten(results) == IF results = <<>> THEN <<>> ELSE Head(results) \o Flatten(Tail(results))

(***************************************************************************)
(* Classifier: the decorated model call (intelligence-api/llm_service)     *)
(***************************************************************************)
\* @retry(stop=stop_after_attempt(3), ...)
STOP_AFTER_ATTEMPT == 3
\* @circuit(failure_threshold=5, recovery_timeout=30)
FAILURE_THRESHOLD == 5

MaxCalls == 5

\* What one HTTP exchange with the model can end in.
Outcomes == {"ok", "timeout", "connect_error", "http_5xx", "malformed_json", "missing_fields"}
Transient == {"timeout", "connect_error", "http_5xx"}

CircuitClosed == [failure_count |-> 0, opened |-> FALSE]

\* CircuitBreaker: a call that raised is counted, and the breaker opens at the
\* threshold; a call that returned closes it and resets the count.
CallFailed(cb) ==
    [failure_count |-> cb.failure_count + 1,
     opened |-> cb.failure_count + 1 >= FAILURE_THRESHOLD]
CallSucceeded(cb) == CircuitClosed

\* The body of call_ollama_llm: every exception of the exchange is caught
\* inside the function, which returns the parsed fields or None and raises
\* nothing.
OllamaBody(outcome) ==
    [raised |-> FALSE, value |-> IF outcome = "ok" THEN "parsed" ELSE "none"]

\* The circuit decorator around one run of the body.
Guarded(cb, body) ==
    [circuit |-> IF body.raised THEN CallFailed(cb) ELSE CallSucceeded(cb),
     raised |-> body.raised, value |-> body.value, contacted |-> TRUE]

\* The circuit decorator: an open breaker whose recovery timeout has not
\* elapsed raises CircuitBreakerError without running the body.
CircuitCall(cb, elapsed, outcome) ==
    IF cb.opened /\ ~elapsed
    THEN [circuit |-> cb, raised |-> TRUE, value |-> "none", contacted |-> FALSE]
    ELSE Guarded(cb, OllamaBody(outcome))

\* The retry decorator around the circuit decorator: attempt k is made, and
\* another one follows only if it raised and attempts remain; an exception
\* of the last attempt leaves as RetryError, which parse_article_with_llm
\* turns into None.  exchanges: the outcomes of the exchanges made so far;
\* counted: the failures the breaker has counted so far.
RECURSIVE Retrying(_, _, _, _, _, _)
Attempted(r, elapsed, outcomes, k, exchanges, counted) ==
    IF r.raised /\ k < STOP_AFTER_ATTEMPT
    THEN Retrying(r.circuit, elapsed, outcomes, k + 1, exchanges, counted)
    ELSE [circuit |-> r.circuit, attempts |-> k, exchanges |-> exchanges,
          counted |-> counted, value |-> r.value]
Tried(r, elapsed, outcomes, k, exchanges, counted) ==
    Attempted(r, elapsed, outcomes, k,
              IF r.contacted THEN Append(exchanges, outcomes[k]) ELSE exchanges,
              IF r.contacted /\ r.raised THEN counted + 1 ELSE counted)
Retrying(cb, elapsed, outcomes, k, exchanges, counted) ==
    Tried(CircuitCall(cb, elapsed, outcomes[k]), elapsed, outcomes, k, exchanges, counted)

Called(before, elapsed, call) ==
    /\ circuit' = call.circuit
    /\ llm_log' = Append(llm_log,
                     [open_before |-> before.opened /\ ~elapsed,
                      exchanges |-> call.exchanges, attempts |-> call.attempts,
                      counted |-> call.counted, value |-> call.value])

\* One call of the decorated call_ollama_llm.  outcomes[k] is what the k-th
\* exchange with the model ends in if it is made; elapsed: the recovery
\* timeout has passed since the breaker opened.
CallOllamaLLM(outcomes, elapsed) ==
    /\ Len(llm_log) < MaxCalls
    /\ Called(circuit, elapsed, Retrying(circuit, elapsed, outcomes, 1, <<>>, 0))
    /\ UNCHANGED <<lifeVars, batchVars, fetchVars, brokerVars, simVars, dedupVars, riskVars, scoreVars, ingestVars, classifierVars>>

(***************************************************************************)
(* Classifier: batches of model calls (intelligence-api/llm_service.py,    *)
(* llm_processor.py)                                                       *)
(***************************************************************************)
\* Config.MAX_CONCURRENT_PROCESSING
MAX_CONCURRENT_PROCESSING == 5

\* The callers of a batch on the one event loop: process_articles_batch from
\* the background loop and from /analyze, categorize_articles_batch from the
\* categorization service.
Batches == {"loop", "analyze", "categorizer"}

MaxBatchArticles == 6

NoTasks == [waiting |-> 0, calling |-> 0]

\* process_articles_batch / categorize_articles_batch up to gather: a semaphore
\* of the batch's own is created, and one task per article.
BatchStart(b, n) ==
    /\ batch_tasks[b] = NoTasks
    /\ batch_tasks' = [batch_tasks EXCEPT ![b] = [waiting |-> n, calling |-> 0]]
    /\ UNCHANGED <<lifeVars, fetchVars, brokerVars, simVars, dedupVars, llmVars, riskVars, scoreVars,
                   ingestVars, classifierVars>>

\* A task enters "async with semaphore" of its batch and sends its model call.
ModelCallStart(b) ==
    /\ batch_tasks[b].waiting > 0
    /\ batch_tasks[b].calling < MAX_CONCURRENT_PROCESSING
    /\ batch_tasks' = [batch_tasks EXCEPT ![b] = [waiting |-> @.waiting - 1,
                                                  calling |-> @.calling + 1]]
    /\ UNCHANGED <<lifeVars, fetchVars, brokerVars, simVars, dedupVars, llmVars, riskVars, scoreVars,
                   ingestVars, classifierVars>>

\* The model call returned: the task leaves the semaphore of its batch.
ModelCallFinish(b) ==
    /\ batch_tasks[b].calling > 0
    /\ batch_tasks' = [batch_tasks EXCEPT ![b].calling = @ - 1]
    /\ UNCHANGED <<lifeVars, fetchVars, brokerVars, simVars, dedupVars, llmVars, riskVars, scoreVars,
                   ingestVars, classifierVars>>

(***************************************************************************)
(* Classifier: the processing cycle (intelligence_api/processing_service)  *)
(***************************************************************************)
\* The background loop and a request to /analyze, on one event loop.
Cycles == {"loop", "analyze"}

MaxEventsQueue == 2

\* get_unprocessed_articles: the articles whose url no parsed event carries,
\* newest first.
get_unprocessed_articles ==
    LET processed_urls == {parsed_events[i].source_url : i \in 1..Len(parsed_events)}
        Unprocessed(a) == a.url \notin processed_urls
    IN  Reverse(Rows(articles, Unprocessed))

\* save_parsed_events: insert_many of the events, nothing on a PyMongoError.
save_parsed_events(coll, events) == coll \o events

\* publish_events
publish_events(queue, events, channel) ==
    IF ~channel THEN queue ELSE queue \o [i \in 1..Len(events) |-> events[i].source_url]

\* History: the state a cycle leaves each article of its batch in.  An article
\* whose event could not be stored is left for the next cycle to find.
Outcome(batch, results, terminal, db_ok) ==
    [u \in Urls |->
        IF \E i \in 1..Len(batch) : batch[i].url = u /\ results[i] # <<>>
        THEN (IF db_ok THEN terminal ELSE "Unseen")
        ELSE IF \E i \in 1..Len(batch) : batch[i].url = u THEN "Skipped"
        ELSE article_state[u]]

\* process_news_articles up to the suspension in process_articles_batch.
CycleStart(c) ==
    /\ cycle_pc[c] = "idle"
    /\ get_unprocessed_articles # <<>>
    /\ cycle_pc' = [cycle_pc EXCEPT ![c] = "llm"]
    /\ cycle_batch' = [cycle_batch EXCEPT ![c] = get_unprocessed_articles]
    /\ article_state' =
          [u \in Urls |->
              IF \E i \in 1..Len(get_unprocessed_articles) : get_unprocessed_articles[i].url = u
              THEN "InFlight" ELSE article_state[u]]
    /\ UNCHANGED <<lifeVars, batchVars, fetchVars, brokerVars, simVars, dedupVars, llmVars, events_queue, riskVars, scoreVars, ingestVars>>

\* The part of the cycle after the events are known: save and publish.
SaveAndPublish(c, events, db_ok, channel) ==
    /\ Len(publish_events(events_queue, events, channel)) <= MaxEventsQueue
    /\ parsed_events' = IF db_ok THEN save_parsed_events(parsed_events, events)
                        ELSE parsed_events
    /\ events_queue' = publish_events(events_queue, events, channel)

\* The rule-based fallback, taken only when the model gave no event at all.
Fallback(c, rule_results, db_ok, channel) ==
    /\ SaveAndPublish(c, Flatten(rule_results), db_ok, channel)
    /\ article_state' = Outcome(cycle_batch[c], rule_results, "RuleParsed", db_ok)

Extracted(c, llm_results, db_ok, channel) ==
    IF Flatten(llm_results) = <<>>
    THEN Fallback(c, RuleResults(cycle_batch[c]), db_ok, channel)
    ELSE /\ SaveAndPublish(c, Flatten(llm_results), db_ok, channel)
         /\ article_state' = Outcome(cycle_batch[c], llm_results, "Parsed", db_ok)

\* process_news_articles from the return of process_articles_batch.
CycleFinish(c, replies, db_ok, channel) ==
    /\ cycle_pc[c] = "llm"
    /\ Extracted(c, LLMResults(cycle_batch[c], replies), db_ok, channel)
    /\ cycle_pc' = [cycle_pc EXCEPT ![c] = "idle"]
    /\ cycle_batch' = [cycle_batch EXCEPT ![c] = <<>>]
    /\ UNCHANGED <<lifeVars, batchVars, fetchVars, brokerVars, simVars, dedupVars, llmVars, economic_data, risk_signals, previous_risk_scores, events_buffer,
                   lastSeen, passes, scoreVars, ingestVars>>

\* The process is restarted while cycles are suspended: they are gone, and what
\* they held in memory with them.
ClassifierRestart ==
    /\ \E c \in Cycles : cycle_pc[c] # "idle"
    /\ cycle_pc' = [c \in Cycles |-> "idle"]
    /\ cycle_batch' = [c \in Cycles |-> <<>>]
    /\ article_state' = [u \in Urls |-> IF article_state[u] = "InFlight" THEN "Unseen"
                                        ELSE article_state[u]]
    /\ UNCHANGED <<lifeVars, batchVars, fetchVars, brokerVars, simVars, dedupVars, llmVars, events_queue, riskVars, scoreVars, ingestVars>>

\* start_background_processor, line 101: the loop starts a cycle only while
\* _running is set.
LoopCycleStart ==
    /\ processor_running
    /\ CycleStart("loop")

\* lifespan after yield, lines 55-59: stop_background_processor() clears the
\* flag and returns, then the model client is closed; the loop's task is not
\* awaited, a cycle suspended in its model call stays suspended.
ShutdownStopAndCloseLLM ==
    /\ processor_running
    /\ cycle_pc["analyze"] = "idle"
    /\ processor_running' = FALSE
    /\ closed' = closed \cup {"llm"}
    /\ UNCHANGED <<scheduler_running, stop_pc, log_snapshot, ticks, high_risk_alerts, news_sources, article_features, model_replies, procVars, flushVars>>
    /\ UNCHANGED <<batchVars, fetchVars, brokerVars, simVars, dedupVars, llmVars, classifierVars, riskVars, scoreVars, ingestVars>>

\* lifespan, lines 60-63: the broker connection and the store client are closed.
ShutdownCloseConnections ==
    /\ "llm" \in closed
    /\ "store" \notin closed
    /\ closed' = closed \cup {"broker", "store"}
    /\ UNCHANGED <<scheduler_running, stop_pc, log_snapshot, ticks, high_risk_alerts, news_sources, processor_running, article_features, model_replies, procVars, flushVars>>
    /\ UNCHANGED <<batchVars, fetchVars, brokerVars, simVars, dedupVars, llmVars, classifierVars, riskVars, scoreVars, ingestVars>>

(***************************************************************************)
(* Classifier: categorization (intelligence-api/services/llm_processor.py, *)
(* categorization_service.py, repositories/mongodb_repository.py).         *)
(* JSON values are kept with their type; the text of a string that stands  *)
(* for a confidence is a sequence of characters.                           *)
(***************************************************************************)
JInt(n) == [kind |-> "int", num |-> n, text |-> <<>>]
\* a float, in thousandths
JFloat(milli) == [kind |-> "float", num |-> milli, text |-> <<>>]
JStr(chars) == [kind |-> "str", num |-> 0, text |-> chars]
JNull == [kind |-> "null", num |-> 0, text |-> <<>>]
JInfinity == [kind |-> "inf", num |-> 0, text |-> <<>>]
JNaN == [kind |-> "nan", num |-> 0, text |-> <<>>]

DigitValue == [c \in {"0", "1", "2", "3", "4", "5", "6", "7", "8", "9"} |->
                 CASE c = "0" -> 0 [] c = "1" -> 1 [] c = "2" -> 2 [] c = "3" -> 3
                   [] c = "4" -> 4 [] c = "5" -> 5 [] c = "6" -> 6 [] c = "7" -> 7
                   [] c = "8" -> 8 [] c = "9" -> 9]

RECURSIVE StripChars(_)
StripChars(chars) ==
    IF chars = <<>> THEN chars
    ELSE IF Head(chars) = " " THEN StripChars(Tail(chars))
    ELSE IF chars[Len(chars)] = " " THEN StripChars(SubSeq(chars, 1, Len(chars) - 1))
    ELSE chars

RECURSIVE DigitsValue(_, _)
DigitsValue(chars, acc) ==
    IF chars = <<>> THEN acc
    ELSE DigitsValue(Tail(chars), 10 * acc + DigitValue[Head(chars)])

Raised(error) == [ok |-> FALSE, value |-> 0, error |-> error]
Returned(value) == [ok |-> TRUE, value |-> value, error |-> "none"]

\* int(str): surrounding blanks are dropped, then an optional sign and digits.
IntOfChars(chars) ==
    LET stripped == StripChars(chars)
        signed == stripped # <<>> /\ Head(stripped) \in {"+", "-"}
        digits == IF signed THEN Tail(stripped) ELSE stripped
    IN  IF digits = <<>> \/ \E i \in 1..Len(digits) : digits[i] \notin DOMAIN DigitValue
        THEN Raised("ValueError")
        ELSE IF signed /\ Head(stripped) = "-" THEN Returned(0 - DigitsValue(digits, 0))
        ELSE Returned(DigitsValue(digits, 0))

\* int(confidence) of Python for the values JSON can carry.
IntOf(value) ==
    CASE value.kind = "int" -> Returned(value.num)
      [] value.kind = "float" -> Returned(IF value.num >= 0 THEN value.num \div 1000
                                          ELSE 0 - ((0 - value.num) \div 1000))
      [] value.kind = "str" -> IntOfChars(value.text)
      [] value.kind = "nan" -> Raised("ValueError")
      [] value.kind = "inf" -> Raised("OverflowError")
      [] OTHER -> Raised("TypeError")

\* valid_categories, line 99
VALID_CATEGORIES ==
    {"Banditry", "Kidnapping", "Gunmen Violence", "Farmer-Herder Clashes", "Unknown"}
KnownCategories == VALID_CATEGORIES \ {"Unknown"}

\* What a model call can come back with: a transport error, a
\* CircuitBreakerError out of the call, a body without "response", a response
\* that is not JSON or not a JSON object, and an object whose fields are there
\* or not.
TransportError(error) == [kind |-> error, category |-> <<>>, confidence |-> <<>>]
JObject(category, confidence) == [kind |-> "object", category |-> category, confidence |-> confidence]

ReplyCategories ==
    {<<>>, <<JNull>>} \cup
    { <<[kind |-> "str", num |-> 0, text |-> c]>> :
        c \in {"Banditry", "Farmer-Herder Clashes", "Unknown", "Terrorism", "banditry"} }
ReplyConfidences ==
    {<<>>, <<JNull>>, <<JInfinity>>, <<JNaN>>} \cup
    { <<JInt(n)>> : n \in {0, 85, 100, 101, 0 - 1} } \cup
    { <<JFloat(m)>> : m \in {85700, 100900, 0 - 500} } \cup
    { <<JStr(t)>> : t \in { <<"8", "5">>, <<" ", "7", "0", " ">>, <<"1", "5", "0">>,
                            <<"h", "i", "g", "h">>, <<"8", "5", ".", "5">> } }
ModelReplies ==
    { TransportError(e) : e \in {"timeout", "connect_error", "http_error", "no_response",
                                  "malformed_json", "not_an_object", "circuit_open"} } \cup
    { JObject(c, n) : c \in ReplyCategories, n \in ReplyConfidences }

UnknownZero == [category |-> "Unknown", confidence |-> 0]

\* analyze_with_ollama without the range check of lines 107-109.
AnalyzeWithoutRangeCheck(reply) ==
    IF reply.kind # "object" THEN UnknownZero
    ELSE LET category == IF reply.category = <<>> THEN "Unknown"
                         ELSE IF reply.category[1].kind = "str" THEN reply.category[1].text
                         ELSE "null"
             confidence == IntOf(IF reply.confidence = <<>> THEN JInt(0) ELSE reply.confidence[1])
         IN  IF confidence.ok
             THEN [category |-> IF category \in VALID_CATEGORIES THEN category ELSE "Unknown",
                   confidence |-> confidence.value]
             ELSE IF confidence.error \in {"ValueError", "TypeError"}
             THEN [category |-> IF category \in VALID_CATEGORIES THEN category ELSE "Unknown",
                   confidence |-> 0]
             ELSE UnknownZero

\* LLMProcessor.analyze_with_ollama: every failure gives Unknown/0; a category
\* outside the list becomes "Unknown"; a confidence that int() refuses or that
\* is outside 0..100 becomes 0; any other exception gives Unknown/0.
analyze_with_ollama(reply) ==
    IF reply.kind # "object" THEN UnknownZero
    ELSE LET category == IF reply.category = <<>> THEN "Unknown"
                         ELSE IF reply.category[1].kind = "str" THEN reply.category[1].text
                         ELSE "null"
             confidence == IntOf(IF reply.confidence = <<>> THEN JInt(0) ELSE reply.confidence[1])
             validated == IF category \in VALID_CATEGORIES THEN category ELSE "Unknown"
         IN  IF confidence.ok
             THEN [category |-> validated,
                   confidence |-> IF confidence.value < 0 \/ confidence.value > 100
                                  THEN 0 ELSE confidence.value]
             ELSE IF confidence.error \in {"ValueError", "TypeError"}
             THEN [category |-> validated, confidence |-> 0]
             ELSE UnknownZero

\* The rule-based categorizer as tests/test_llm_processor.py describes it
\* (test_rule_based_categorize_*): the first category one of whose keywords is
\* in the text, with the confidence fixed for the category.  LLMProcessor has
\* no method of that name.
RuleKeywords ==
    [c \in KnownCategories |->
        CASE c = "Banditry" -> {"bandits", "robbed", "robbery"}
          [] c = "Kidnapping" -> {"kidnappers", "abducted", "hostage", "ransom"}
          [] c = "Gunmen Violence" -> {"gunmen", "shooting"}
          [] c = "Farmer-Herder Clashes" -> {"herder", "herders", "cattle", "grazing"}]
RuleConfidence ==
    [c \in VALID_CATEGORIES |->
        CASE c = "Banditry" -> 70 [] c = "Kidnapping" -> 75 [] c = "Gunmen Violence" -> 65
          [] c = "Farmer-Herder Clashes" -> 60 [] c = "Unknown" -> 20]
RuleOrder == <<"Banditry", "Kidnapping", "Gunmen Violence", "Farmer-Herder Clashes">>

rule_based_categorize(words) ==
    LET Hit(i) == \E k \in 1..Len(words) : words[k] \in RuleKeywords[RuleOrder[i]]
        category == IF \E i \in 1..Len(RuleOrder) : Hit(i)
                    THEN RuleOrder[CHOOSE i \in 1..Len(RuleOrder) :
                                      Hit(i) /\ \A j \in 1..(i - 1) : ~Hit(j)]
                    ELSE "Unknown"
    IN  [category |-> category, confidence |-> RuleConfidence[category]]

\* f"Title: {title}\n\nContent: {content}" of the article with the url.
ArticleText(u) ==
    LET a == CHOOSE x \in {ArtClash, ArtSports} : x.url = u
    IN  a.title \o a.content

\* get_uncategorized_articles: the articles whose conflict_type is "Unknown".
get_uncategorized_articles ==
    {u \in Urls : article_features[u] # <<>> /\ article_features[u][1].conflict_type = "Unknown"}

\* update_article_category: $set of both fields.
update_article_category(category, confidence) ==
    << [conflict_type |-> category, confidence |-> <<confidence>>] >>

\* The Ingestor stores an article; its features start with conflict_type
\* "Unknown" and no confidence.
RawArticleSaved(u) ==
    /\ article_features[u] = <<>>
    /\ article_features' = [article_features EXCEPT ![u] = << [conflict_type |-> "Unknown", confidence |-> <<>>] >>]
    /\ UNCHANGED <<scheduler_running, stop_pc, log_snapshot, ticks, high_risk_alerts, news_sources, processor_running, closed, model_replies, procVars, flushVars>>
    /\ UNCHANGED <<batchVars, fetchVars, brokerVars, simVars, dedupVars, llmVars, classifierVars, riskVars, scoreVars, ingestVars>>

\* CategorizationService.categorize_articles: every uncategorized article is
\* analyzed, and the result is written for those whose update succeeds.
CategorizeArticles(updated) ==
    /\ get_uncategorized_articles # {}
    /\ updated \subseteq get_uncategorized_articles
    /\ article_features' =
          [u \in Urls |->
              IF u \in updated
              THEN update_article_category(analyze_with_ollama(model_replies[u]).category,
                                           analyze_with_ollama(model_replies[u]).confidence)
              ELSE article_features[u]]
    /\ UNCHANGED <<scheduler_running, stop_pc, log_snapshot, ticks, high_risk_alerts, news_sources, processor_running, closed, model_replies, procVars, flushVars>>
    /\ UNCHANGED <<batchVars, fetchVars, brokerVars, simVars, dedupVars, llmVars, classifierVars, riskVars, scoreVars, ingestVars>>

\* The Ingestor's save of one scraped article.
ArticleSaved(a) ==
    /\ articles' = UpsertArticle(articles, a)
    /\ saved' = Offered(saved, <<a>>)
    /\ articles' # articles
    /\ UNCHANGED <<lifeVars, batchVars, fetchVars, brokerVars, simVars, dedupVars, llmVars, articles_queue, collection_truth, is_running, instances, job_pc,
                   automation_log, lastTick, scrapes_in_flight, scrape_response, riskVars, scoreVars,
                   classifierVars>>

(***************************************************************************)
(* Specifications                                                          *)
(***************************************************************************)
RiskIdle ==
    /\ parsed_events = <<>>
    /\ economic_data = <<>>
    /\ risk_signals = <<>>
    /\ previous_risk_scores = [s \in Services |-> EmptyMap]
    /\ events_buffer = [s \in Services |-> <<>>]
    /\ lastSeen = [s \in Services |-> EmptyMap]
    /\ passes = NoPasses

ScoreIdle ==
    /\ inEvent = Event("unknown", "Lagos", "Ikeja", "low", <<"clash", "in", "town">>,
                       "http://n.ng/a1", NoPlace)
    /\ inPrev = EmptyMap
    /\ inSim = NoSliders
    /\ outClassic = <<>>
    /\ outDynamic = <<>>

IngestIdle ==
    /\ articles = <<>>
    /\ articles_queue = <<>>
    /\ collection_truth = "truthy"
    /\ is_running = FALSE
    /\ instances = 0
    /\ job_pc = [w \in Workers |-> "idle"]
    /\ automation_log = <<[event_type |-> "scheduler_start", status |-> "success"]>>
    /\ lastTick = "none"
    /\ scrapes_in_flight = 0
    /\ scrape_response = <<>>
    /\ saved = NeverSaved

ClassifierIdle ==
    /\ cycle_pc = [c \in Cycles |-> "idle"]
    /\ cycle_batch = [c \in Cycles |-> <<>>]
    /\ events_queue = <<>>
    /\ article_state = [u \in Urls |-> "Unseen"]

LLMIdle ==
    /\ circuit = CircuitClosed
    /\ llm_log = <<>>

ProcIdle ==
    /\ service_running = [s \in Services |-> FALSE]
    /\ loop_pc = [l \in Loops |-> "unstarted"]
    /\ accepted = [s \in Services |-> <<>>]
    /\ handed = [s \in Services |-> <<>>]

OthersIdle ==
    /\ simulation_response = <<>>
    /\ last_delivery = <<>>
    /\ semaphore_value = MAX_CONCURRENT_CONNECTIONS
    /\ fetches = NoFetches
    /\ batch_tasks = [b \in Batches |-> NoTasks]
    /\ scheduler_running = TRUE
    /\ stop_pc = "serving"
    /\ log_snapshot = NoSnapshots
    /\ ticks = 0
    /\ high_risk_alerts = <<>>
    /\ processor_running = TRUE
    /\ closed = {}
    /\ ProcIdle
    /\ article_features = [u \in Urls |-> <<>>]
    /\ model_replies = [u \in Urls |-> TransportError("timeout")]

SimIdle ==
    /\ news_sources = NEWS_SOURCES
    /\ OthersIdle

DedupIdle ==
    /\ dedup_pc = "new"
    /\ candidates = <<>>
    /\ deduplicated_articles = <<>>
    /\ deduplicated_again = <<>>

\* The Risk Engine process with its store.
InitRisk == RiskIdle /\ ScoreIdle /\ IngestIdle /\ ClassifierIdle /\ LLMIdle /\ DedupIdle /\ SimIdle

NextRisk ==
    \/ \E e \in RiskPool : EventStored(e)
    \/ \E rows \in {<<>>, EconRows} : InitializeEconomicData(rows)
    \/ \E s \in Services : ProcessRiskPredictions(s)
    \/ \E e \in RiskPool : ProcessEventFromQueue("main", e)
    \/ ConsumeMalformed
    \/ \E s \in Services : ProcessEventBuffer(s)

SpecRisk == InitRisk /\ [][NextRisk]_vars

\* Events for the Risk Engine of which one scores above 85.
AlertPool ==
    { Event("Clash", "Lagos", "Ikeja", "high", <<"herder", "attack">>, "http://n.ng/a1", "p_high"),
      Event("sports", "Lagos", "Ikeja", "low", <<"clash", "in", "town">>, "http://n.ng/a2", "p_low"),
      Event("clash", "Benue", "Makurdi", "high", <<"herder", "attack">>, "http://n.ng/a3", "p_out") }

InitAlerts == InitRisk

NextAlerts ==
    \/ \E e \in AlertPool : EventStored(e)
    \/ \E rows \in {<<>>, EconRows} : InitializeEconomicData(rows)
    \/ \E s \in Services : ProcessRiskPredictions(s)
    \/ \E e \in AlertPool : ProcessEventFromQueue("main", e)
    \/ \E s \in Services : ProcessEventBuffer(s)

SpecAlerts == InitAlerts /\ [][NextAlerts]_vars

\* The two scorers as pure functions of a drawn input.
InitScore ==
    /\ RiskIdle
    /\ LLMIdle
    /\ DedupIdle
    /\ SimIdle
    /\ IngestIdle
    /\ ClassifierIdle
    /\ inEvent \in ScoreEvents
    /\ inPrev \in PrevChoices(inEvent)
    /\ inSim \in SimChoices
    /\ inPrev = EmptyMap \/ inSim = NoSliders
    /\ outClassic = <<>>
    /\ outDynamic = <<>>

NextScore == ScoreClassic \/ ScoreDynamic

SpecScore == InitScore /\ [][NextScore]_vars

\* The Ingestor process after its lifespan start-up: the scheduler is started,
\* with either behaviour of bool(Collection).
InitIngest ==
    /\ RiskIdle
    /\ LLMIdle
    /\ DedupIdle
    /\ SimIdle
    /\ ScoreIdle
    /\ ClassifierIdle
    /\ articles = <<>>
    /\ articles_queue = <<>>
    /\ collection_truth \in {"truthy", "raises"}
    /\ is_running = FALSE
    /\ instances = 0
    /\ job_pc = [w \in Workers |-> "idle"]
    /\ automation_log = <<[event_type |-> "scheduler_start", status |-> "success"]>>
    /\ lastTick = "none"
    /\ scrapes_in_flight = 0
    /\ scrape_response = <<>>
    /\ saved = NeverSaved

NextIngest ==
    \/ Tick
    \/ \E w \in Workers : JobStart(w)
    \/ \E w \in Workers : JobRun(w)
    \/ ScrapeNewsStart
    \/ \E batch \in ScrapedBatches, connected \in BOOLEAN, channel \in BOOLEAN :
          \E n \in (IF connected THEN 0..Len(batch) ELSE {0}),
             k \in (IF channel THEN 0..Len(batch) ELSE {0}) :
              ScrapeNewsFinish(batch, connected, n, channel, k)

SpecIngest == InitIngest /\ [][NextIngest]_vars

\* The Ingestor after start(): the log file of the earlier runs has got the
\* "scheduler_start" entry.
InitAudit ==
    /\ RiskIdle
    /\ LLMIdle
    /\ DedupIdle
    /\ SimIdle
    /\ ScoreIdle
    /\ ClassifierIdle
    /\ articles = <<>>
    /\ articles_queue = <<>>
    /\ collection_truth \in {"truthy", "raises"}
    /\ is_running = FALSE
    /\ instances = 0
    /\ job_pc = [w \in Workers |-> "idle"]
    /\ \E earlier \in EarlierLogs :
          automation_log = LogAutomationEvent(earlier, "scheduler_start", "success")
    /\ lastTick = "none"
    /\ scrapes_in_flight = 0
    /\ scrape_response = <<>>
    /\ saved = NeverSaved

NextAudit ==
    \/ CronTick
    \/ \E w \in Workers : JobStart(w)
    \/ \E w \in Workers : JobReadLog(w)
    \/ \E w \in Workers : JobWriteLog(w)
    \/ StopShutdown
    \/ StopReadLog
    \/ StopWriteLog

SpecAudit == InitAudit /\ [][NextAudit]_vars

\* The Ingestor after start() with any setting of the sources.
InitCycle ==
    /\ RiskIdle
    /\ LLMIdle
    /\ DedupIdle
    /\ OthersIdle
    /\ ScoreIdle
    /\ ClassifierIdle
    /\ news_sources \in SourceLists
    /\ articles = <<>>
    /\ articles_queue = <<>>
    /\ collection_truth \in {"truthy", "raises"}
    /\ is_running = FALSE
    /\ instances = 0
    /\ job_pc = [w \in Workers |-> "idle"]
    /\ automation_log = <<[event_type |-> "scheduler_start", status |-> "success"]>>
    /\ lastTick = "none"
    /\ scrapes_in_flight = 0
    /\ scrape_response = <<>>
    /\ saved = NeverSaved

NextCycle ==
    \/ Tick
    \/ \E w \in Workers : JobStart(w)
    \/ \E w \in Workers : JobRun(w)

SpecCycle == InitCycle /\ [][NextCycle]_vars

\* The Classifier process with the store the Ingestor fills.
InitClassifier ==
    RiskIdle /\ ScoreIdle /\ IngestIdle /\ ClassifierIdle /\ LLMIdle /\ DedupIdle /\ SimIdle

NextClassifier ==
    \/ \E a \in ArticlePool : ArticleSaved(a)
    \/ \E c \in Cycles : CycleStart(c)
    \/ \E c \in Cycles, db_ok \in BOOLEAN, channel \in BOOLEAN :
          \E replies \in [1..Len(cycle_batch[c]) -> LLMReplies] :
              CycleFinish(c, replies, db_ok, channel)
    \/ ClassifierRestart

SpecClassifier == InitClassifier /\ [][NextClassifier]_vars

\* The Classifier from start-up to the end of its lifespan; requests to
\* POST /analyze have been answered before the lifespan's shutdown runs.
InitShutdown == InitClassifier

NextShutdown ==
    \/ \E a \in ArticlePool : ArticleSaved(a)
    \/ LoopCycleStart
    \/ \E db_ok \in BOOLEAN, channel \in BOOLEAN :
          \E replies \in [1..Len(cycle_batch["loop"]) -> LLMReplies] :
              CycleFinish("loop", replies, db_ok, channel)
    \/ ShutdownStopAndCloseLLM
    \/ ShutdownCloseConnections

SpecShutdown == InitShutdown /\ [][NextShutdown]_vars

\* Categorization with any reply of the model for each article.
OthersIdleButCategorization ==
    /\ simulation_response = <<>>
    /\ last_delivery = <<>>
    /\ semaphore_value = MAX_CONCURRENT_CONNECTIONS
    /\ fetches = NoFetches
    /\ batch_tasks = [b \in Batches |-> NoTasks]
    /\ scheduler_running = TRUE
    /\ stop_pc = "serving"
    /\ log_snapshot = NoSnapshots
    /\ ticks = 0
    /\ high_risk_alerts = <<>>
    /\ processor_running = TRUE
    /\ closed = {}
    /\ ProcIdle
    /\ news_sources = NEWS_SOURCES

InitCategorize ==
    /\ RiskIdle /\ ScoreIdle /\ IngestIdle /\ ClassifierIdle /\ LLMIdle /\ DedupIdle
    /\ OthersIdleButCategorization
    /\ article_features = [u \in Urls |-> <<>>]
    /\ model_replies \in [Urls -> ModelReplies]

NextCategorize ==
    \/ \E u \in Urls : RawArticleSaved(u)
    \/ \E updated \in SUBSET Urls : CategorizeArticles(updated)

SpecCategorize == InitCategorize /\ [][NextCategorize]_vars

\* The model call of the Classifier with its retry and circuit-breaker
\* decorators.
InitLLM == RiskIdle /\ ScoreIdle /\ IngestIdle /\ ClassifierIdle /\ LLMIdle /\ DedupIdle /\ SimIdle

NextLLM ==
    \E outcomes \in [1..STOP_AFTER_ATTEMPT -> Outcomes], elapsed \in BOOLEAN :
        CallOllamaLLM(outcomes, elapsed)

SpecLLM == InitLLM /\ [][NextLLM]_vars

\* deduplicate_and_score on the lists of candidates, and on its own result.
InitDedup ==
    /\ RiskIdle
    /\ ScoreIdle
    /\ IngestIdle
    /\ ClassifierIdle
    /\ LLMIdle
    /\ SimIdle
    /\ dedup_pc = "new"
    /\ candidates \in CandidateLists
    /\ deduplicated_articles = <<>>
    /\ deduplicated_again = <<>>

NextDedup ==
    \/ \E order \in IterationOrders(processed_fingerprints(candidates)) :
          DeduplicateAndScore(order)
    \/ \E order \in IterationOrders(processed_fingerprints(deduplicated_articles)) :
          DeduplicateAgain(order)

SpecDedup == InitDedup /\ [][NextDedup]_vars

\* The outbound requests of the Ingestor's scrapers.
InitFetch == InitRisk

NextFetch ==
    \/ FetchPageStart
    \/ FetchPageFinish
    \/ ParseFeedStart
    \/ ParseFeedFinish
    \/ PlainFetchStart
    \/ PlainFetchFinish

SpecFetch == InitFetch /\ [][NextFetch]_vars

\* The batches of model calls of the Classifier.
InitBatch == InitRisk

NextBatch ==
    \/ \E b \in Batches, n \in 1..MaxBatchArticles : BatchStart(b, n)
    \/ \E b \in Batches : ModelCallStart(b)
    \/ \E b \in Batches : ModelCallFinish(b)

SpecBatch == InitBatch /\ [][NextBatch]_vars

\* The store, the scoring cycles of both services and requests to POST /simulate.
InitSimulate == InitRisk

NextSimulate ==
    \/ \E e \in RiskPool : EventStored(e)
    \/ \E rows \in {<<>>, EconRows} : InitializeEconomicData(rows)
    \/ \E s \in Services : ProcessRiskPredictions(s)
    \/ \E params \in SimulationRequests : SimulateRiskScenarios(params)

SpecSimulate == InitSimulate /\ [][NextSimulate]_vars

(***************************************************************************)
(* Properties of the Risk Engine                                           *)
(***************************************************************************)
SignalIndices == 1..Len(risk_signals)

\* C1: after any sequence of background cycles, buffer flushes and on-demand
\* predictions, risk_signals holds at most one RiskSignal per source_url.
C1_OneSignalPerSourceUrl ==
    \A i, j \in SignalIndices :
        risk_signals[i].source_url = risk_signals[j].source_url => i = j

\* An instance has run two consecutive cycles over events that include two
\* parsed events of one url, and a signal of that url is stored.
C1_Witness ==
    /\ passes.n = 2
    /\ \E i, j \in 1..Len(parsed_events) :
          /\ i # j
          /\ parsed_events[i].source_url = parsed_events[j].source_url
          /\ \E k \in SignalIndices :
                risk_signals[k].source_url = parsed_events[i].source_url

\* C2: every persisted RiskSignal has 0 <= risk_score <= 100 and a risk_level
\* equal to the band of its stored risk_score.
C2_StoredLevelIsBandOfStoredScore ==
    \A i \in SignalIndices :
        /\ risk_signals[i].risk_score >= 0
        /\ risk_signals[i].risk_score <= M(100)
        /\ risk_signals[i].risk_level =
              (IF risk_signals[i].risk_score >= M(80) THEN "Critical"
               ELSE IF risk_signals[i].risk_score >= M(60) THEN "High"
               ELSE IF risk_signals[i].risk_score >= M(40) THEN "Medium"
               ELSE IF risk_signals[i].risk_score >= M(20) THEN "Low"
               ELSE "Minimal")

\* The surge flag a scoring should carry: a score was recorded for the key by
\* the most recent earlier scoring (of this run, else of an earlier run) and the
\* new score exceeds it by more than 20 percent.
SurgeFlagsRight(seen, scorings) ==
    \A i \in 1..Len(scorings) :
        LET before == Latest(seen, SubSeq(scorings, 1, i - 1))
            k == scorings[i].key
        IN  scorings[i].surge_detected <=>
                /\ k \in DOMAIN before
                /\ (scorings[i].score - before[k]) * 100 > 20 * before[k]

SameOutcome(a, b) ==
    /\ a.source_url = b.source_url
    /\ a.risk_score = b.risk_score
    /\ a.risk_level = b.risk_level
    /\ a.trigger_reason = b.trigger_reason

\* C7: a cycle that an instance runs right after a cycle of its own, over the
\* same events and economic data, leaves risk_score, risk_level and
\* trigger_reason (which carries the surge verdict) of every stored signal as
\* the first pass left them.
C7_RerunLeavesSignalsUnchanged ==
    [][ \A s \in Services :
          (ProcessRiskPredictions(s) /\ passes.by = s /\ passes.n >= 1)
              => \A i \in SignalIndices :
                    \E j \in 1..Len(risk_signals') :
                        SameOutcome(risk_signals[i], risk_signals'[j]) ]_vars

\* Some row of the economic data has the state of the location, compared
\* without case (a row matching state and lga is such a row).
HasEconomicRow(state, lga, rows) ==
    \E i \in 1..Len(rows) : Lower(rows[i].State) = Lower(Strip(state))

\* C14: an event whose location has no economic row by (state, lga) nor by
\* state is not scored: no signal of such a location is ever stored, no surge
\* map has a key of such a location, and a cycle or flush that runs while the
\* economic data has no rows leaves the signals and the surge maps as they are.
C14_NoEconomicRowNoSignal ==
    /\ [](\A i \in SignalIndices :
            HasEconomicRow(risk_signals[i].state, risk_signals[i].lga, EconRows))
    /\ [](\A s \in Services : \A e \in RiskPool :
            location_key(Strip(e.state), Strip(e.lga)) \in DOMAIN previous_risk_scores[s]
                => HasEconomicRow(e.state, e.lga, EconRows))
    /\ [][ economic_data = <<>>
             => UNCHANGED <<risk_signals, previous_risk_scores>> ]_vars

\* A cycle has scored the stored events, one of which has no economic row, and
\* has stored a signal for another.
C14_Witness ==
    /\ passes.n >= 1
    /\ economic_data = EconRows
    /\ risk_signals # <<>>
    /\ \E i \in 1..Len(parsed_events) :
          ~HasEconomicRow(parsed_events[i].state, parsed_events[i].lga, EconRows)

\* The fields of the event satisfy the constraints RiskSignal puts on them.
WellFormedEvent(e) ==
    /\ Len(e.event_type) >= 1 /\ Len(e.event_type) <= 50
    /\ Len(Strip(e.state)) >= 1 /\ Len(Strip(e.lga)) >= 1
    /\ e.severity \in SeverityPattern
    /\ TextLen(e.source_title) >= 3 /\ TextLen(e.source_title) <= 200
    /\ Len(e.source_url) >= 10

\* The events of a batch that have an economic row.
WithEconomicRow(events, rows) ==
    {i \in 1..Len(events) : HasEconomicRow(events[i].state, events[i].lga, rows)}

\* C16: batch scoring of the stored events returns as many signals as there
\* are events with an economic row, each for one of these events and no two
\* for the same one.
C16_BatchOneSignalPerEventWithEconomicRow ==
    \A s \in Services :
        LET signals == calculate_risk_scores_batch(get_parsed_events, economic_data,
                                                   previous_risk_scores[s]).signals
        IN  /\ Len(signals) = Cardinality(WithEconomicRow(get_parsed_events, economic_data))
            /\ \A i \in 1..Len(signals) :
                  \E j \in WithEconomicRow(get_parsed_events, economic_data) :
                      signals[i].source_url = get_parsed_events[j].source_url

\* C20: a request to /simulate leaves the collections articles, parsed_events,
\* risk_signals and economic_data, the queues, the event buffers and the surge
\* maps as they were.
C20_SimulationLeavesStoreAndEngineUnchanged ==
    [][ \A params \in SimulationRequests :
            SimulateRiskScenarios(params) =>
                UNCHANGED <<articles, parsed_events, risk_signals, economic_data,
                            articles_queue, events_queue, events_buffer,
                            previous_risk_scores>> ]_vars

\* A simulation has answered with a feature while signals are stored and a
\* surge map is filled.
C20_Witness ==
    /\ simulation_response # <<>>
    /\ Len(simulation_response[1].features) >= 1
    /\ risk_signals # <<>>
    /\ \E s \in Services : previous_risk_scores[s] # EmptyMap

\* C22: a delivered event is acknowledged only once its signal has been
\* scored and stored, and is rejected otherwise.
C22_AckOnlyAfterSignalStored ==
    [][ \A e \in RiskPool :
            ProcessEventFromQueue("main", e) =>
                (last_delivery'[1].reply = "ack"
                    <=> \E i \in 1..Len(risk_signals') :
                            risk_signals'[i].source_url = e.source_url) ]_vars

\* C26: every risk signal the Risk Engine produced with risk_score > 85 is
\* also in the high-risk alerts log, and the log holds at most 20 alerts.
C26_HighRiskSignalsAreInAlertsLog ==
    /\ Len(high_risk_alerts) <= HIGH_RISK_ALERTS_KEEP
    /\ \A i \in 1..Len(risk_signals) :
           risk_signals[i].risk_score > M(HIGH_RISK_THRESHOLD) =>
               \E k \in 1..Len(high_risk_alerts), j \in 1..HIGH_RISK_ALERT_ARTICLES :
                   /\ j <= Len(high_risk_alerts[k].urls)
                   /\ high_risk_alerts[k].urls[j] = risk_signals[i].source_url

(***************************************************************************)
(* Properties of the scorers                                               *)
(***************************************************************************)
\* The steps of a scoring from the clash rule on.
FromClashRule(steps) ==
    { i \in 1..Len(steps) : \E j \in 1..i : steps[j].name = "clash_rule" }

\* C4: an event scored as a clash at a location whose inflation is above 20 has
\* a score of at least 81 when the clash rule has run and after every later
\* step, and the score handed to surge detection and the stored risk_score are
\* at least 81.
C4_ClashWithHighInflationAtLeast81 ==
    \A r \in Range(outClassic) :
        LET row == find_economic_data(inEvent, EconRows)
        IN  (/\ Lower(inEvent.event_type) = "clash"
             /\ row # <<>>
             /\ row[1].inflation > M(20))
            => /\ \E i \in 1..Len(r.steps) : r.steps[i].name = "clash_rule"
               /\ \A i \in FromClashRule(r.steps) : r.steps[i].after >= M(81)
               /\ \A sc \in Range(r.scored) : sc.score >= M(81)
               /\ \A sig \in Range(r.signal) : sig.risk_score >= M(81)

\* A clash scored below 81 before the rule, raised by it, with a signal built.
C4_Witness ==
    \E r \in Range(outClassic) :
        /\ r.signal # <<>>
        /\ \E i \in 1..Len(r.steps) :
              /\ r.steps[i].name = "clash_rule"
              /\ r.steps[i].before < M(81)
              /\ i < Len(r.steps)

\* Every step that changed the score appended a reason, and its reasons are
\* clauses of the trigger reason.
StepsExplained(steps, clauses) ==
    \A i \in 1..Len(steps) :
        steps[i].after # steps[i].before
            => /\ steps[i].reasons # <<>>
               /\ Range(steps[i].reasons) \subseteq Range(clauses)

\* C5: in every result of the classic scorer and of the simulator, each branch
\* that changed the score appended its reason, which is a clause of
\* trigger_reason.
C5_EveryAppliedModifierHasClause ==
    /\ \A r \in Range(outClassic) :
          \A sig \in Range(r.signal) : StepsExplained(r.steps, sig.trigger_reason.clauses)
    /\ \A o \in Range(outDynamic) :
          \A sig \in Range(o) : StepsExplained(sig.steps, sig.trigger_reason.clauses)

\* C15: an event without coordinates gets no result from the simulator, and
\* the classic scorer gives it a signal when its location has an economic row
\* (and its fields are ones a RiskSignal can carry).
C15_NoCoordinatesSimulatorSkipsClassicScores ==
    inEvent.place = NoPlace
        => /\ \A o \in Range(outDynamic) : o = <<>>
           /\ \A r \in Range(outClassic) :
                 (WellFormedEvent(inEvent) /\ HasEconomicRow(inEvent.state, inEvent.lga, EconRows))
                     => r.signal # <<>>

\* C35: the surge-map entry of a location changes only when a scoring of that
\* location produces a RiskSignal; a scoring that fails after the score was
\* computed and returns no signal leaves the surge map unchanged.
C35_NoSignalLeavesSurgeMapUnchanged ==
    outClassic # <<>> /\ outClassic[1].signal = <<>> => outClassic[1].prev = inPrev

\* C36: when a surge is detected, the surge warning is prepended to
\* trigger_reason: it appears before every other reason clause.
C36_SurgeWarningIsFirstClause ==
    outClassic # <<>> /\ outClassic[1].signal # <<>> =>
        LET clauses == outClassic[1].signal[1].trigger_reason.clauses
        IN  (\E i \in 1..Len(clauses) : clauses[i] = "SURGE ALERT") =>
                clauses[1] = "SURGE ALERT"

BorderSteps == {"lakurawa", "border_critical", "border_high"}

\* C37: a produced signal has lakurawa_presence = true exactly when the
\* Lakurawa rule fired for it (border_activity High and state Sokoto or Kebbi:
\* +20 and the 'Lakurawa Presence Detected' reason), and the +20, +15 and +10
\* border bonuses are mutually exclusive.
C37_LakurawaPresenceIffRuleFired ==
    outClassic # <<>> /\ outClassic[1].signal # <<>> =>
        LET steps == outClassic[1].steps
            signal == outClassic[1].signal[1]
        IN  /\ signal.lakurawa_presence <=>
                   \E i \in 1..Len(steps) :
                       /\ steps[i].name = "lakurawa"
                       /\ steps[i].after = steps[i].before + M(20)
                       /\ steps[i].reasons = <<"Lakurawa Presence Detected">>
            /\ Cardinality({i \in 1..Len(steps) : steps[i].name \in BorderSteps}) <= 1

\* The half of C37 about the bonuses alone.
C37_BorderBonusesExclusive ==
    outClassic # <<>> =>
        Cardinality({i \in 1..Len(outClassic[1].steps) :
                        outClassic[1].steps[i].name \in BorderSteps}) <= 1

SeverityTable == {"critical", "severe", "high", "medium", "moderate", "low", "minor", "unknown"}

\* C38: an event with any severity of the modifier table and a matching
\* economic row is scored with that table's modifier and yields a RiskSignal.
\* Stated for events that yield a signal when their severity is "low", so
\* that nothing but the severity decides.
C38_TableSeverityYieldsSignal ==
    /\ outClassic # <<>>
    /\ inEvent.severity \in SeverityTable
    /\ find_economic_data(inEvent, EconRows) # <<>>
    /\ calculate_risk_score([inEvent EXCEPT !.severity = "low"], EconRows, inPrev).signal # <<>>
    => /\ outClassic[1].signal # <<>>
       /\ outClassic[1].signal[1].severity = inEvent.severity

LocationSteps == {"flood", "mining_proximity", "lakurawa", "border_critical", "border_high"}

\* C32 as stated: with all three slider values 0 the simulator's risk_score
\* of any event equals BASE_RISK_SCORE + event_type score + severity modifier,
\* clamped to [0, 100].
C32_ZeroSlidersGiveBaseTypeSeverity ==
    outDynamic # <<>> /\ outDynamic[1] # <<>> /\ inSim = NoSliders =>
        outDynamic[1][1].risk_score = Round1(ClampScore(BaseScore(inEvent).score))

\* C32, corrected: with all three slider values 0 the slider-driven stages
\* (inflation, fuel, urban multiplier) leave the score as it is; the risk_score
\* equals base + event_type + severity, clamped, when no modifier of the
\* event's location (flood, mining proximity, border) applies, and is at
\* least that otherwise.
C32_ZeroSlidersLeaveLocationModifiers ==
    outDynamic # <<>> /\ outDynamic[1] # <<>> /\ inSim = NoSliders =>
        LET signal == outDynamic[1][1]
            plain == Round1(ClampScore(BaseScore(inEvent).score))
        IN  /\ \A i \in 1..Len(signal.steps) :
                   signal.steps[i].name \notin LocationSteps =>
                       signal.steps[i].after = signal.steps[i].before
            /\ (\A i \in 1..Len(signal.steps) : signal.steps[i].name \notin LocationSteps)
                   => signal.risk_score = plain
            /\ signal.risk_score >= plain

\* A simulation with all sliders 0 whose score is above base + type + severity.
C32_Witness ==
    /\ outDynamic # <<>> /\ outDynamic[1] # <<>> /\ inSim = NoSliders
    /\ \E i \in 1..Len(outDynamic[1][1].steps) : outDynamic[1][1].steps[i].name = "flood"
    /\ outDynamic[1][1].risk_score > Round1(ClampScore(BaseScore(inEvent).score))

\* The background-processor loops of one predictor process.
InitProcessor ==
    /\ RiskIdle /\ ScoreIdle /\ IngestIdle /\ ClassifierIdle /\ LLMIdle /\ DedupIdle
    /\ OthersIdleButCategorization
    /\ article_features = [u \in Urls |-> <<>>]
    /\ model_replies = [u \in Urls |-> TransportError("timeout")]

NextProcessor ==
    \/ LifespanStartup
    \/ \E l \in Loops \ {0} : StartProcessorRequest(l)
    \/ StopProcessorRequest
    \/ \E l \in Loops : LoopIterate(l)
    \/ \E e \in RiskPool : EventStored(e)
    \/ \E rows \in {<<>>, EconRows} : InitializeEconomicData(rows)

SpecProcessor == InitProcessor /\ [][NextProcessor]_vars

\* C33: within one Risk Engine process at most one background-processor loop
\* is scoring events and writing the surge map at any time, also after
\* repeated start-processor requests or a stop followed by a start.
C33_AtMostOneScoringLoop ==
    Cardinality({l \in Loops : loop_pc[l] = "scored"}) <= 1

\* The events buffer of the two services between the queue and the scorer.
InitBuffer == InitProcessor

NextBuffer ==
    \/ \E s \in Services, e \in RiskPool : AcceptFromQueue(s, e)
    \/ \E s \in Services : FlushAccepted(s)
    \/ \E rows \in {<<>>, EconRows} : InitializeEconomicData(rows)

SpecBuffer == InitBuffer /\ [][NextBuffer]_vars

\* C34: every event accepted from the queue into the events buffer is handed
\* to the scorer exactly once; a flush never discards buffered events without
\* scoring them, also when economic data is unavailable at flush time.  In
\* every state the events accepted are those handed to the scorer, once each
\* and in order, followed by those still in the buffer.
C34_AcceptedEventsAreHandedToScorer ==
    \A s \in Services : accepted[s] = handed[s] \o SourceUrls(events_buffer[s])

(***************************************************************************)
(* Properties of the Ingestor                                              *)
(***************************************************************************)
\* C6: after any sequence of saves the articles collection has exactly one row
\* for each url that was saved, and the row is the article of the first save
\* of that url: saving a url again adds no row and overwrites nothing.
C6_OneRowPerUrlWithFirstContent ==
    /\ \A i, j \in 1..Len(articles) : articles[i].url = articles[j].url => i = j
    /\ \A i \in 1..Len(articles) : saved[articles[i].url].first = <<articles[i]>>
    /\ \A u \in Urls : saved[u].first # <<>> => HasUrl(articles, u)

\* A url was saved again with another content, and its row is there.
C6_Witness ==
    \E u \in Urls :
        /\ saved[u].first # <<>>
        /\ saved[u].last # saved[u].first
        /\ HasUrl(articles, u)

C17_SavedArticlesCarrySourceCountAndVeracity ==
    \A i \in 1..Len(articles) :
        /\ "source_count" \in DOMAIN articles[i]
        /\ "veracity_score" \in DOMAIN articles[i]
        /\ articles[i].source_count >= 1
        /\ articles[i].veracity_score = Min2(M(1), 500 * articles[i].source_count)

\* C21: GET /scrape answers "success" only if the batch was written to the
\* store and published to the queue, and answers "partial" if it scraped
\* articles and the write or the publish did not happen.
C21_SuccessOnlyWhenWrittenAndPublished ==
    scrape_response # <<>> =>
        /\ scrape_response[1].status = "success"
              => (scrape_response[1].written /\ scrape_response[1].published)
        /\ (scrape_response[1].status \notin {"warning", "error"}
              /\ ~(scrape_response[1].written /\ scrape_response[1].published))
              => scrape_response[1].status = "partial"

\* C23: at most MAX_CONCURRENT_CONNECTIONS outbound requests are in flight, and
\* each request in flight holds a permit of the global semaphore.
C23_OutboundRequestsHoldPermits ==
    /\ fetches.page + fetches.feed + fetches.plain <= MAX_CONCURRENT_CONNECTIONS
    /\ fetches.page + fetches.feed + fetches.plain
          = MAX_CONCURRENT_CONNECTIONS - semaphore_value

\* C25: every executed ingest cycle appends exactly one audit entry, and the
\* audit log always equals the most recent appended entries in append order,
\* never more than 100: each write of a cycle or of stop() leaves the log that
\* was there with the new entry at its end, cut to the last 100.
C25_LogIsLast100AppendedInOrder ==
    [][ /\ Len(automation_log') <= AUTOMATION_LOG_KEEP
        /\ \A w \in Workers :
               JobWriteLog(w) =>
                   automation_log' =
                       LastN(Append(automation_log,
                                    [event_type |-> "scheduled_scrape", status |-> "error"]),
                             AUTOMATION_LOG_KEEP)
        /\ StopWriteLog =>
               automation_log' =
                   LastN(Append(automation_log,
                                [event_type |-> "scheduler_stop", status |-> "success"]),
                         AUTOMATION_LOG_KEEP) ]_vars

\* C27: a cycle run with an empty sources list succeeds with 0 articles: it
\* raises no error, saves and publishes nothing, and records status "warning".
C27_EmptySourcesCycleRecordsWarning ==
    [][ \A w \in Workers :
            JobRun(w) /\ news_sources = <<>> =>
                /\ automation_log' =
                       LogAutomationEvent(automation_log, "scheduled_scrape", "warning")
                /\ articles' = articles
                /\ articles_queue' = articles_queue ]_vars

\* C28: a failure while scraping one source never aborts the cycle: the
\* articles of every other source are collected, saved and published.
C28_FailedSourceLeavesOtherSourcesArticles ==
    [][ \A w \in Workers :
            JobRun(w) /\ (\E i \in 1..Len(news_sources) : news_sources[i].outcome # "ok") =>
                \A j \in 1..Len(news_sources) :
                    \A k \in 1..Len(SourceArticles(news_sources[j])) :
                        LET url == SourceArticles(news_sources[j])[k].url
                        IN  /\ HasUrl(articles', url)
                            /\ \E q \in 1..Len(articles_queue') : articles_queue'[q] = url ]_vars

(***************************************************************************)
(* Properties of the deduplication                                         *)
(***************************************************************************)
\* The fingerprint the function uses for the i-th article of a list.
FingerprintAt(list, i) == Fingerprinted(list[i]).fingerprint

\* The articles of a list that share the fingerprint of the i-th.
SharingWith(list, i) ==
    {j \in 1..Len(list) : FingerprintAt(list, j) = FingerprintAt(list, i)}

\* The first article of the list with the fingerprint of the i-th.
FirstSharing(list, i) ==
    CHOOSE j \in SharingWith(list, i) : \A m \in SharingWith(list, i) : j <= m

\* out is the article in, whatever its source_count and veracity_score.
SameArticle(out, in) ==
    \A f \in {"url", "source", "title", "content"} : out[f] = in[f]

\* C18: the result has exactly one article per fingerprint of the candidates,
\* it is the first candidate with the fingerprint, and its source_count is the
\* number of distinct sources among the candidates with the fingerprint.
C18_OneRepresentativePerFingerprint ==
    dedup_pc # "new" =>
        /\ \A i \in 1..Len(candidates) :
              Cardinality({k \in 1..Len(deduplicated_articles) :
                  deduplicated_articles[k].fingerprint = FingerprintAt(candidates, i)}) = 1
        /\ \A k \in 1..Len(deduplicated_articles) :
              \E i \in 1..Len(candidates) :
                  /\ deduplicated_articles[k].fingerprint = FingerprintAt(candidates, i)
                  /\ SameArticle(deduplicated_articles[k],
                                 candidates[FirstSharing(candidates, i)])
                  /\ deduplicated_articles[k].source_count =
                        Cardinality({candidates[j].source : j \in SharingWith(candidates, i)})

\* Two outlets with the same title and content under different urls, and the
\* same outlet twice, have given one article with source_count 2.
C18_Witness ==
    /\ dedup_pc = "once"
    /\ Len(candidates) = 3
    /\ Cardinality({candidates[i].source : i \in 1..Len(candidates)}) = 2
    /\ Cardinality({candidates[i].url : i \in 1..Len(candidates)}) = 3
    /\ Len(deduplicated_articles) = 1
    /\ deduplicated_articles[1].source_count = 2
    /\ deduplicated_articles[1].veracity_score = M(1)

\* C19: deduplicating a deduplicated list gives the same fingerprints, each
\* once, and the same articles: none merged, dropped or added.
C19_DedupOfDedupKeepsGroupings ==
    dedup_pc = "twice" =>
        /\ Len(deduplicated_again) = Len(deduplicated_articles)
        /\ {deduplicated_again[k].fingerprint : k \in 1..Len(deduplicated_again)}
              = {deduplicated_articles[k].fingerprint : k \in 1..Len(deduplicated_articles)}
        /\ \A k \in 1..Len(deduplicated_articles) :
              \E m \in 1..Len(deduplicated_again) :
                  /\ deduplicated_again[m].fingerprint = deduplicated_articles[k].fingerprint
                  /\ SameArticle(deduplicated_again[m], deduplicated_articles[k])

\* A list that lost an article in the first run and kept two has been
\* deduplicated twice.
C19_Witness ==
    /\ dedup_pc = "twice"
    /\ Len(candidates) = 3
    /\ Len(deduplicated_articles) = 2
    /\ Len(deduplicated_again) = 2
    /\ \E k \in 1..2 : deduplicated_articles[k].source_count = 2

\* The model calls in flight, over all batches.
RECURSIVE CallsInFlight(_)
CallsInFlight(bs) ==
    IF bs = {} THEN 0
    ELSE LET b == CHOOSE x \in bs : TRUE
         IN  batch_tasks[b].calling + CallsInFlight(bs \ {b})

\* C24: at most MAX_CONCURRENT_PROCESSING model calls are in flight, over all
\* batches that run at the same time.
C24_ModelCallsBoundedAcrossBatches ==
    CallsInFlight(Batches) <= MAX_CONCURRENT_PROCESSING

(***************************************************************************)
(* Properties of the Classifier                                            *)
(***************************************************************************)
\* C8: under every interleaving of processing cycles and restarts, no two
\* documents of parsed_events have the same source_url.
C8_OneParsedEventPerSourceUrl ==
    \A i, j \in 1..Len(parsed_events) :
        parsed_events[i].source_url = parsed_events[j].source_url => i = j

TerminalStates == {"Parsed", "RuleParsed", "Skipped"}

\* C9: an article that has reached Parsed, RuleParsed or Skipped is never taken
\* InFlight again by a later cycle.
C9_TerminalNeverInFlightAgain ==
    [][ \A u \in Urls :
          article_state[u] \in TerminalStates => article_state'[u] # "InFlight" ]_vars

\* C12: in a cycle whose save succeeds, every article of the batch for which
\* the model gave no event and for which the rule extractor gives one has the
\* rule extractor's event stored by that cycle, whatever the model gave for
\* the other articles of the batch.
C12_FailedModelCallFallsBackPerArticle ==
    [][ \A c \in Cycles, channel \in BOOLEAN :
          \A replies \in [1..Len(cycle_batch[c]) -> LLMReplies] :
              CycleFinish(c, replies, TRUE, channel)
                  => \A i \in 1..Len(cycle_batch[c]) :
                        (/\ parse_article_with_llm(cycle_batch[c][i], replies[i]) = <<>>
                         /\ simple_extract_event(cycle_batch[c][i]) # <<>>)
                            => simple_extract_event(cycle_batch[c][i])[1]
                                  \in Range(parsed_events') ]_vars

\* The outcomes of all exchanges with the model, in order.
RECURSIVE AllExchanges(_)
AllExchanges(n) == IF n = 0 THEN <<>> ELSE AllExchanges(n - 1) \o llm_log[n].exchanges

\* The last FAILURE_THRESHOLD exchanges all ended in a transient error.
ThresholdReached(ex) ==
    /\ Len(ex) >= FAILURE_THRESHOLD
    /\ \A i \in (Len(ex) - FAILURE_THRESHOLD + 1)..Len(ex) : ex[i] \in Transient

\* C13: in every call, an exchange that fails with a transient network error
\* is counted by the circuit breaker and is followed by another attempt while
\* fewer than 3 have been made and the breaker lets it through; the breaker is
\* open once 5 exchanges in a row have failed so; and a call made while it is
\* open (before the recovery timeout) makes no exchange.
C13_TransientFailureRetriedAndCounted ==
    /\ \A i \in 1..Len(llm_log) :
          LET call == llm_log[i]
              failed == {j \in 1..Len(call.exchanges) : call.exchanges[j] \in Transient}
          IN  /\ call.counted = Cardinality(failed)
              /\ \A j \in failed :
                    j < STOP_AFTER_ATTEMPT => (call.attempts > j \/ call.attempts = STOP_AFTER_ATTEMPT)
              /\ call.attempts <= STOP_AFTER_ATTEMPT
              /\ call.open_before => call.exchanges = <<>>
    /\ ThresholdReached(AllExchanges(Len(llm_log))) => circuit.opened


FlaggedForVerification(article) ==
    /\ "features" \in DOMAIN article
    /\ "verification_needed" \in DOMAIN article.features
    /\ article.features.verification_needed

\* The articles of the list that a representative can be the copy of.
OriginalsOf(representative) ==
    {i \in 1..Len(candidates) : candidates[i].url = representative.url}

\* C39: for every representative produced by dedup whose features carried no
\* verification flag before, features.verification_needed is true after
\* dedup if and only if source_count > 1 and veracity_score < 0.8.
C39_VerificationNeededIffManySourcesLowVeracity ==
    dedup_pc # "new" =>
        \A k \in 1..Len(deduplicated_articles) :
            LET representative == deduplicated_articles[k]
            IN  (/\ "features" \in DOMAIN representative
                 /\ \A i \in OriginalsOf(representative) :
                        "verification_needed" \notin DOMAIN candidates[i].features)
                => (FlaggedForVerification(representative) <=>
                        /\ representative.source_count > 1
                        /\ representative.veracity_score < VERIFICATION_THRESHOLD)

\* A representative of two sources whose features carried no flag before and
\* carry the flag, set to false, after dedup.
C39_Witness ==
    /\ dedup_pc # "new"
    /\ \E k \in 1..Len(deduplicated_articles) :
          /\ "features" \in DOMAIN deduplicated_articles[k]
          /\ deduplicated_articles[k].source_count > 1
          /\ \A i \in OriginalsOf(deduplicated_articles[k]) :
                 "verification_needed" \notin DOMAIN candidates[i].features
          /\ "verification_needed" \in DOMAIN deduplicated_articles[k].features
          /\ ~deduplicated_articles[k].features.verification_needed

\* C29: on shutdown a worker first stops accepting new work, then in-flight
\* work is drained, and only then are the clients and connections closed: one
\* is closed only with the loop stopped and no cycle in flight, and no cycle
\* goes on from its model call to its save and publish with any of them closed.
C29_ConnectionsClosedOnlyAfterDrain ==
    [][ /\ closed' # closed =>
               /\ ~processor_running'
               /\ \A c \in Cycles : cycle_pc[c] = "idle"
        /\ \A c \in Cycles :
               cycle_pc[c] = "llm" /\ cycle_pc'[c] = "idle" => closed = {} ]_vars


\* C30: every categorization result written to an article has its category in
\* the five valid categories and its confidence in 0..100, whatever the model
\* returned, and an article that has left the categorization queue has a known
\* category and a confidence in 0..100.
C30_WrittenCategoryValidConfidenceInRange ==
    \A u \in Urls :
        article_features[u] # <<>> =>
            /\ article_features[u][1].conflict_type \in VALID_CATEGORIES
            /\ article_features[u][1].confidence # <<>> =>
                   article_features[u][1].confidence[1] \in 0..100
            /\ article_features[u][1].conflict_type # "Unknown" =>
                   /\ article_features[u][1].conflict_type \in KnownCategories
                   /\ article_features[u][1].confidence # <<>>

\* An article left the queue after a reply with a valid category and a
\* confidence outside 0..100, and another was written after a reply that named
\* no valid category.
C30_Witness ==
    \E u, v \in Urls :
        /\ model_replies[u].kind = "object"
        /\ model_replies[u].confidence \in {<<JInt(101)>>, <<JStr(<<"1", "5", "0">>)>>}
        /\ article_features[u] = << [conflict_type |-> "Banditry", confidence |-> <<0>>] >>
        /\ model_replies[v].category = << [kind |-> "str", num |-> 0, text |-> "Terrorism"] >>
        /\ article_features[v] # <<>>
        /\ article_features[v][1].confidence # <<>>


\* C31: when the circuit breaker is open, batch categorization falls back to
\* the rule-based categorizer: every article of the batch gets the keyword
\* category of its text with the confidence fixed for that category.
C31_OpenCircuitGivesRuleBasedResult ==
    \A u \in Urls :
        /\ model_replies[u].kind = "circuit_open"
        /\ article_features[u] # <<>>
        /\ article_features[u][1].confidence # <<>>
        => article_features[u] =
               update_article_category(rule_based_categorize(ArticleText(u)).category,
                                       rule_based_categorize(ArticleText(u)).confidence)

====
